---- MODULE Spec2Model ----
(***************************************************************************)
(* Model of the guitar-recommendation pipeline of                          *)
(* src/src/agents/enhanced_guitar_agent.py (EnhancedGuitarAgent), its      *)
(* knowledge base (src/src/knowledge/guitar_knowledge.py) and the          *)
(* application entry point that drives it (src/app.py).                    *)
(*                                                                         *)
(* Text the code inspects character by character (queries, names, titles,  *)
(* features) is a sequence of one-character strings; text the code only    *)
(* passes along is a TLA+ string.  A value decoded from the generator's    *)
(* JSON is a tagged record [t, v]; a JSON object is a function from its    *)
(* keys to such values.                                                    *)
(***************************************************************************)
EXTENDS Integers, Sequences, FiniteSets, TLC

(***************************************************************************)
(* Python text operations                                                  *)
(***************************************************************************)
UpperChars == <<"A","B","C","D","E","F","G","H","I","J","K","L","M",
                "N","O","P","Q","R","S","T","U","V","W","X","Y","Z">>
LowerChars == <<"a","b","c","d","e","f","g","h","i","j","k","l","m",
                "n","o","p","q","r","s","t","u","v","w","x","y","z">>
Whitespace == {" ", "\n", "\t"}

\* str.lower() on one character
LowerChar(c) ==
  IF \E i \in 1..Len(UpperChars) : UpperChars[i] = c
  THEN LowerChars[CHOOSE i \in 1..Len(UpperChars) : UpperChars[i] = c]
  ELSE c

\* str.lower()
Lower(s) == [i \in 1..Len(s) |-> LowerChar(s[i])]

\* sub in s
IsSubstr(sub, s) ==
  \E i \in 0..(Len(s) - Len(sub)) : SubSeq(s, i + 1, i + Len(sub)) = sub

RECURSIVE LStrip(_)
LStrip(s) == IF s # <<>> /\ Head(s) \in Whitespace THEN LStrip(Tail(s)) ELSE s
RECURSIVE RStrip(_)
RStrip(s) ==
  IF s # <<>> /\ s[Len(s)] \in Whitespace THEN RStrip(SubSeq(s, 1, Len(s) - 1)) ELSE s
\* str.strip()
Strip(s) == RStrip(LStrip(s))

\* str.split(): the maximal runs of non-whitespace characters, in order
RECURSIVE SplitFrom(_, _, _)
SplitFrom(s, cur, acc) ==
  IF s = <<>> THEN (IF cur = <<>> THEN acc ELSE Append(acc, cur))
  ELSE IF Head(s) \in Whitespace
       THEN SplitFrom(Tail(s), <<>>, IF cur = <<>> THEN acc ELSE Append(acc, cur))
       ELSE SplitFrom(Tail(s), Append(cur, Head(s)), acc)
Split(s) == SplitFrom(s, <<>>, <<>>)

\* sep.join(parts)
RECURSIVE Join(_, _)
Join(parts, sep) ==
  IF parts = <<>> THEN <<>>
  ELSE IF Len(parts) = 1 THEN parts[1]
  ELSE parts[1] \o sep \o Join(Tail(parts), sep)

\* set(seq)
Range(f) == {f[i] : i \in DOMAIN f}
\* seq[:n]
Prefix(seq, n) == SubSeq(seq, 1, IF Len(seq) < n THEN Len(seq) ELSE n)

Max(a, b) == IF a >= b THEN a ELSE b
Min(a, b) == IF a <= b THEN a ELSE b
\* int(a / b) for b > 0: truncation toward zero
TruncDiv(a, b) == IF a >= 0 THEN a \div b ELSE -((-a) \div b)

(***************************************************************************)
(* Values decoded from JSON (json.loads) and Python's view of them         *)
(***************************************************************************)
PyNone == [t |-> "none", v |-> 0]
Num(n) == [t |-> "num", v |-> n]
Str(s) == [t |-> "str", v |-> s]
List(l) == [t |-> "list", v |-> l]
Dict(d) == [t |-> "dict", v |-> d]
\* text the code only copies, held as a TLA+ string
Txt(x) == [t |-> "txt", v |-> x]

\* bool(x)
Truthy(x) ==
  CASE x.t = "none" -> FALSE
    [] x.t = "num" -> x.v # 0
    [] x.t = "str" -> x.v # <<>>
    [] x.t = "list" -> x.v # <<>>
    [] x.t = "dict" -> DOMAIN x.v # {}
    [] x.t = "txt" -> x.v # ""
\* x == y
PyEq(x, y) == x.t = y.t /\ x.v = y.v
\* d.get(k, default), d a JSON object
Get(d, k, default) == IF k \in DOMAIN d THEN d[k] ELSE default
\* d with d[k] = x
Put(d, k, x) == (k :> x) @@ d

(***************************************************************************)
(* GuitarKnowledgeBase tables, in table order (the fields the pipeline     *)
(* reads)                                                                  *)
(***************************************************************************)
ARTIST_GUITARS ==
  << [key |-> <<"j","i","m","m","y"," ","p","a","g","e">>,
      brands |-> <<"Gibson", "Epiphone", "Fender">>],
     [key |-> <<"d","a","v","i","d"," ","g","i","l","m","o","u","r">>,
      brands |-> <<"Fender", "Gibson">>],
     [key |-> <<"j","i","m","i"," ","h","e","n","d","r","i","x">>,
      brands |-> <<"Fender", "Gibson">>],
     [key |-> <<"e","r","i","c"," ","c","l","a","p","t","o","n">>,
      brands |-> <<"Fender", "Gibson", "Martin">>],
     [key |-> <<"b","b"," ","k","i","n","g">>,
      brands |-> <<"Gibson", "Epiphone">>],
     [key |-> <<"s","l","a","s","h">>,
      brands |-> <<"Gibson", "Epiphone">>],
     [key |-> <<"e","d","d","i","e"," ","v","a","n"," ","h","a","l","e","n">>,
      brands |-> <<"EVH", "Fender", "Charvel", "Kramer">>],
     [key |-> <<"j","o","h","n"," ","m","a","y","e","r">>,
      brands |-> <<"Fender", "PRS", "Martin">>],
     [key |-> <<"g","e","o","r","g","e"," ","b","e","n","s","o","n">>,
      brands |-> <<"Ibanez", "Gibson">>],
     [key |-> <<"k","u","r","t"," ","c","o","b","a","i","n">>,
      brands |-> <<"Fender", "Gibson">>] >>

GENRE_GUITARS ==
  << [key |-> <<"b","l","u","e","s">>,
      brands |-> <<"Fender", "Gibson", "Epiphone", "PRS">>,
      recommended_types |-> <<"Stratocaster", "Les Paul", "ES-335", "Telecaster">>],
     [key |-> <<"r","o","c","k">>,
      brands |-> <<"Gibson", "Fender", "PRS", "ESP", "Schecter">>,
      recommended_types |-> <<"Les Paul", "SG", "Stratocaster", "PRS Custom">>],
     [key |-> <<"m","e","t","a","l">>,
      brands |-> <<"Ibanez", "Jackson", "ESP", "Schecter", "Dean", "ESP LTD", "Jackson Pro">>,
      recommended_types |-> <<"Ibanez RG", "Jackson Soloist", "ESP Eclipse", "Schecter Hellraiser", "ESP LTD">>],
     [key |-> <<"j","a","z","z">>,
      brands |-> <<"Gibson", "Ibanez", "Gretsch", "D'Angelico", "Epiphone">>,
      recommended_types |-> <<"ES-175", "L-5", "Hollow body", "Semi-hollow">>],
     [key |-> <<"c","o","u","n","t","r","y">>,
      brands |-> <<"Fender", "Gretsch", "Gibson", "G&L">>,
      recommended_types |-> <<"Telecaster", "Gretsch", "Acoustic">>],
     [key |-> <<"i","n","d","i","e">>,
      brands |-> <<"Fender", "Squier", "Reverend", "G&L">>,
      recommended_types |-> <<"Jaguar", "Jazzmaster", "Mustang", "Telecaster">>],
     [key |-> <<"f","u","n","k">>,
      brands |-> <<"Fender", "Gibson", "PRS", "Ibanez">>,
      recommended_types |-> <<"Stratocaster", "Telecaster", "Semi-hollow">>] >>

SKILL_LEVEL_GUITARS ==
  << [key |-> <<"b","e","g","i","n","n","e","r">>,
      price_range |-> <<200, 700>>],
     [key |-> <<"i","n","t","e","r","m","e","d","i","a","t","e">>,
      price_range |-> <<700, 2000>>],
     [key |-> <<"a","d","v","a","n","c","e","d">>,
      price_range |-> <<1500, 5000>>],
     [key |-> <<"p","r","o","f","e","s","s","i","o","n","a","l">>,
      price_range |-> <<3000, 10000>>] >>

custom_shop_keywords ==
  << <<"c","u","s","t","o","m"," ","s","h","o","p">>,
     <<"a","s","h"," ","b","o","d","y">>,
     <<"p","a","u"," ","f","e","r","r","o">>,
     <<"q","u","a","r","t","e","r","s","a","w","n">>,
     <<"h","i","p","s","h","o","t">>,
     <<"g","r","a","p","h"," ","t","e","c","h">>,
     <<"g","o","t","o","h">>,
     <<"s","e","y","m","o","u","r"," ","d","u","n","c","a","n">> >>

(***************************************************************************)
(* GuitarKnowledgeBase lookups.  A lookup returns <<>> for None and        *)
(* <<entry>> for a table entry.                                            *)
(***************************************************************************)
\* a lookup that matches in one direction only: the key within the input
KeyInInputOnly(table, k) ==
  LET hits == {i \in 1..Len(table) : IsSubstr(table[i].key, k)}
  IN IF hits = {} THEN <<>>
     ELSE <<table[CHOOSE i \in hits : \A j \in hits : i <= j]>>

\* for key, value in table.items(): if key in k or k in key: return value
FirstMatch(table, k) ==
  LET hits == {i \in 1..Len(table) :
                 IsSubstr(table[i].key, k) \/ IsSubstr(k, table[i].key)}
  IN IF hits = {} THEN <<>>
     ELSE <<table[CHOOSE i \in hits : \A j \in hits : i <= j]>>

get_artist_info(artist_name) == FirstMatch(ARTIST_GUITARS, Strip(Lower(artist_name)))
get_genre_recommendations(genre) == FirstMatch(GENRE_GUITARS, Strip(Lower(genre)))
get_skill_level_advice(skill_level) == FirstMatch(SKILL_LEVEL_GUITARS, Strip(Lower(skill_level)))

(***************************************************************************)
(* Step 1: post-processing of the parsed intent record                     *)
(***************************************************************************)
BUDGET_FLOOR == 100
DEFAULT_FLEXIBILITY == 20
DEFAULT_BUDGET_MIN == 300
DEFAULT_BUDGET_MAX == 2000
BEGINNER_CEILING == 800
PROFESSIONAL_FLOOR == 1000
MAX_RESULTS == 25

s_rock == <<"r","o","c","k">>
s_intermediate == <<"i","n","t","e","r","m","e","d","i","a","t","e">>
s_electric == <<"e","l","e","c","t","r","i","c">>
s_beginner == <<"b","e","g","i","n","n","e","r">>
s_professional == <<"p","r","o","f","e","s","s","i","o","n","a","l">>

\* a default record with the budgets of the search defaults
FallbackAnalysisWide ==
  [budget_min |-> Num(300), budget_max |-> Num(2000), musical_style |-> Str(<<"r","o","c","k">>),
   skill_level |-> Str(<<"i","n","t","e","r","m","e","d","i","a","t","e">>),
   guitar_type |-> Str(<<"e","l","e","c","t","r","i","c">>), confidence |-> Num(50)]

\* the record returned when generation, parsing or post-processing fails
\* (confidence is held in hundredths)
FallbackAnalysis ==
  [budget_min |-> Num(400), budget_max |-> Num(1200), musical_style |-> Str(s_rock),
   skill_level |-> Str(s_intermediate), guitar_type |-> Str(s_electric),
   confidence |-> Num(50)]

\* "Apply budget flexibility" on the value json.loads returned.  budget_flexibility
\* is held in hundredths, so x * (1 - f) is x * (100 - f) / 100.  The result says
\* whether an exception left the block and, if none did, the updated record.
ApplyBudgetFlexibility(parsed) ==
  IF parsed.t # "dict" THEN [raised |-> TRUE, analysis |-> << >>]
  ELSE
    LET analysis == parsed.v
        bmax == Get(analysis, "budget_max", PyNone)
        flexibility == Get(analysis, "budget_flexibility", Num(DEFAULT_FLEXIBILITY))
    IN IF ~Truthy(bmax) THEN [raised |-> FALSE, analysis |-> analysis]
       ELSE IF PyEq(Get(analysis, "budget_min", PyNone), bmax)
       THEN IF bmax.t # "num" THEN [raised |-> TRUE, analysis |-> << >>]
            ELSE [raised |-> FALSE,
                  analysis |->
                    Put(Put(analysis, "budget_min",
                            Num(Max(BUDGET_FLOOR, TruncDiv(bmax.v * 80, 100)))),
                        "budget_max", Num(TruncDiv(bmax.v * 120, 100)))]
       ELSE LET bmin == Get(analysis, "budget_min", Num(DEFAULT_BUDGET_MIN))
            IN IF bmin.t # "num" \/ flexibility.t # "num" \/ bmax.t # "num"
               THEN [raised |-> TRUE, analysis |-> << >>]
               ELSE [raised |-> FALSE,
                     analysis |->
                       Put(Put(analysis, "budget_min",
                               Num(Max(BUDGET_FLOOR,
                                       TruncDiv(bmin.v * (100 - flexibility.v), 100)))),
                           "budget_max",
                           Num(TruncDiv(bmax.v * (100 + flexibility.v), 100)))]

(***************************************************************************)
(* Step 2: the search strategy.  A strategy computation carries the filter *)
(* built so far, the reasoning steps recorded so far, and whether an       *)
(* exception has been raised (after which nothing more is done).           *)
(***************************************************************************)
\* " ".join(required_features) raises unless it is a string or a list of strings
JoinRaises(rf) ==
  ~(rf.t = "str" \/ (rf.t = "list" /\ \A i \in 1..Len(rf.v) : rf.v[i].t = "str"))
JoinFeatures(rf) ==
  IF rf.t = "str" THEN Join([i \in 1..Len(rf.v) |-> <<rf.v[i]>>], <<" ">>)
  ELSE Join([i \in 1..Len(rf.v) |-> rf.v[i].v], <<" ">>)

InitialParams(analysis) ==
  [raised |-> FALSE,
   steps |-> <<"Determining search strategy from user analysis">>,
   params |-> ("min_price" :> Get(analysis, "budget_min", Num(DEFAULT_BUDGET_MIN)))
           @@ ("max_price" :> Get(analysis, "budget_max", Num(DEFAULT_BUDGET_MAX)))
           @@ ("max_results" :> MAX_RESULTS)]

\* artist targeting tried before the custom-shop markers
ArtistBeforeCustomShop(analysis, st) ==
  LET rf == Get(analysis, "required_features", List(<<>>))
      artist == Get(analysis, "artist_reference", PyNone)
      artist_info == IF artist.t = "str" THEN get_artist_info(artist.v) ELSE <<>>
  IN IF JoinRaises(rf) THEN [st EXCEPT !.raised = TRUE]
     ELSE IF artist_info # <<>>
     THEN [st EXCEPT !.params = Put(@, "brands", Prefix(artist_info[1].brands, 3)),
                     !.steps = Append(@, "Targeting brands based on artist")]
     ELSE IF \E i \in 1..Len(custom_shop_keywords) :
                IsSubstr(custom_shop_keywords[i], Lower(JoinFeatures(rf)))
     THEN [st EXCEPT !.params = Put(@, "brands", <<"fender">>),
                     !.steps = Append(@, "Detected custom shop quality request")]
     ELSE st

\* custom-shop targeting, else artist targeting
BrandTargeting(analysis, st) ==
  LET rf == Get(analysis, "required_features", List(<<>>))
      artist == Get(analysis, "artist_reference", PyNone)
  IN IF JoinRaises(rf) THEN [st EXCEPT !.raised = TRUE]
     ELSE IF \E i \in 1..Len(custom_shop_keywords) :
                IsSubstr(custom_shop_keywords[i], Lower(JoinFeatures(rf)))
     THEN [st EXCEPT !.params = Put(@, "brands", <<"fender">>),
                     !.steps = Append(@, "Detected custom shop quality request")]
     ELSE IF ~Truthy(artist) THEN st
     ELSE IF artist.t # "str" THEN [st EXCEPT !.raised = TRUE]
     ELSE LET artist_info == get_artist_info(artist.v)
          IN IF artist_info = <<>> THEN st
             ELSE [st EXCEPT !.params = Put(@, "brands", Prefix(artist_info[1].brands, 3)),
                             !.steps = Append(@, "Targeting brands based on artist")]

\* genre targeting whether or not brands were chosen
GenreAlways(analysis, st) ==
  LET style == Get(analysis, "musical_style", PyNone)
      genre_info == IF style.t = "str" THEN get_genre_recommendations(style.v) ELSE <<>>
  IN IF st.raised \/ ~Truthy(style) \/ genre_info = <<>> THEN st
     ELSE [st EXCEPT
             !.params = Put(Put(@, "brands", Prefix(genre_info[1].brands, 3)),
                            "search_terms",
                            Prefix(genre_info[1].recommended_types, 2)),
             !.steps = Append(@, "Applied genre targeting")]

\* genre targeting that sets the brands and leaves search_terms out
GenreBrandsOnly(analysis, st) ==
  LET style == Get(analysis, "musical_style", PyNone)
  IN IF st.raised THEN st
     ELSE IF ~(Truthy(style) /\ Get(st.params, "brands", <<>>) = <<>>) THEN st
     ELSE IF style.t # "str" THEN [st EXCEPT !.raised = TRUE]
     ELSE LET genre_info == get_genre_recommendations(style.v)
          IN IF genre_info = <<>> THEN st
             ELSE [st EXCEPT
                     !.params = Put(@, "brands", Prefix(genre_info[1].brands, 3)),
                     !.steps = Append(@, "Applied genre targeting")]

\* genre targeting when no brands were chosen
GenreTargeting(analysis, st) ==
  LET style == Get(analysis, "musical_style", PyNone)
  IN IF st.raised THEN st
     ELSE IF ~(Truthy(style) /\ Get(st.params, "brands", <<>>) = <<>>) THEN st
     ELSE IF style.t # "str" THEN [st EXCEPT !.raised = TRUE]
     ELSE LET genre_info == get_genre_recommendations(style.v)
          IN IF genre_info = <<>> THEN st
             ELSE [st EXCEPT
                     !.params = Put(Put(@, "brands", Prefix(genre_info[1].brands, 3)),
                                    "search_terms",
                                    Prefix(genre_info[1].recommended_types, 2)),
                     !.steps = Append(@, "Applied genre targeting")]

\* skill level adjustments of the price bounds
SkillAdjustment(analysis, st) ==
  LET skill == Get(analysis, "skill_level", PyNone)
  IN IF st.raised THEN st
     ELSE IF ~Truthy(skill) THEN st
     ELSE IF skill.t # "str" THEN [st EXCEPT !.raised = TRUE]
     ELSE IF get_skill_level_advice(skill.v) = <<>> THEN st
     ELSE IF skill.v = s_beginner
     THEN IF st.params["max_price"].t # "num" THEN [st EXCEPT !.raised = TRUE]
          ELSE [st EXCEPT
                  !.params = Put(@, "max_price",
                                 Num(Min(st.params["max_price"].v, BEGINNER_CEILING))),
                  !.steps = Append(@, "Adjusted search for skill level")]
     ELSE IF skill.v = s_professional
     THEN IF st.params["min_price"].t # "num" THEN [st EXCEPT !.raised = TRUE]
          ELSE [st EXCEPT
                  !.params = Put(@, "min_price",
                                 Num(Max(st.params["min_price"].v, PROFESSIONAL_FLOOR))),
                  !.steps = Append(@, "Adjusted search for skill level")]
     ELSE [st EXCEPT !.steps = Append(@, "Adjusted search for skill level")]

\* the whole of the strategy computation
SearchStrategy(analysis) ==
  SkillAdjustment(analysis,
    GenreTargeting(analysis, BrandTargeting(analysis, InitialParams(analysis))))

(***************************************************************************)
(* Step 1: the knowledge context of a query                                *)
(***************************************************************************)
\* the artists of the table, in table order, that the query mentions by full
\* name or by one word of the name
ArtistMatches(query) ==
  LET q == Lower(query)
  IN SelectSeq(ARTIST_GUITARS,
               LAMBDA e : /\ \/ IsSubstr(e.key, q)
                             \/ \E w \in Range(Split(e.key)) : IsSubstr(w, q)
                          /\ get_artist_info(e.key) # <<>>)
\* the genres of the table, in table order, that the query mentions
GenreMatches(query) ==
  LET q == Lower(query)
  IN SelectSeq(GENRE_GUITARS,
               LAMBDA e : IsSubstr(e.key, q) /\ get_genre_recommendations(e.key) # <<>>)

\* no table match whatever the query
StaticNone(query) == <<>>

\* the knowledge tags _apply_knowledge records for the table matches
StaticKnowledge(query) ==
  LET a == ArtistMatches(query)
      g == GenreMatches(query)
  IN [i \in 1..Len(a) |-> [type |-> "Artist", key |-> a[i].key]]
     \o [i \in 1..Len(g) |-> [type |-> "Genre", key |-> g[i].key]]

DynamicTag == [type |-> "Dynamic Analysis", key |-> <<>>]

(***************************************************************************)
(* Listings and step 4: reconciliation of generated entries with listings  *)
(***************************************************************************)
\* a match only of equal titles
TitlesEqual(rec_title, guitar_title) == rec_title = guitar_title

\* rec_title and guitar_title share at least 60% of rec_title's distinct words
titles_match(rec_title, guitar_title) ==
  LET rec_words == Range(Split(Lower(rec_title)))
      guitar_words == Range(Split(Lower(guitar_title)))
      overlap == Cardinality(rec_words \cap guitar_words)
  IN overlap * 10 >= Cardinality(rec_words) * 6

\* the assignments of the matched branch written into the listing instead
AssignsIntoListing(rec, guitar) ==
  [rec |-> Put(Put(Put(Put(Put(Put(rec,
             "title", Str(guitar.title)),
             "image_url", Txt(guitar.image_url)),
             "link", Txt(guitar.link)),
             "condition", Txt(guitar.condition)),
             "source", Txt(guitar.source)),
             "price", Num(guitar.price)),
   guitar |-> [guitar EXCEPT !.title = rec["guitar_title"].v]]

\* the entry and the listing after the six assignments of the matched branch:
\* every target is a key of rec, every value is read from guitar
MatchedAssignments(rec, guitar) ==
  [rec |-> Put(Put(Put(Put(Put(Put(rec,
             "title", Str(guitar.title)),
             "image_url", Txt(guitar.image_url)),
             "link", Txt(guitar.link)),
             "condition", Txt(guitar.condition)),
             "source", Txt(guitar.source)),
             "price", Num(guitar.price)),
   guitar |-> guitar]

\* the position of the first candidate whose title matches the entry's
\* guitar_title, 0 when there is none or the entry has no guitar_title
FirstHit(rec, guitars) ==
  LET title == Get(rec, "guitar_title", PyNone)
      hits == IF Truthy(title)
              THEN {i \in 1..Len(guitars) : titles_match(title.v, guitars[i].title)}
              ELSE {}
  IN IF hits = {} THEN 0 ELSE CHOOSE i \in hits : \A j \in hits : i <= j

\* one generated entry after the matching loop over the candidates
EnhanceRecommendation(rec, guitars) ==
  LET title == Get(rec, "guitar_title", PyNone)
      hit == FirstHit(rec, guitars)
  IN IF ~Truthy(title) THEN rec
     ELSE IF hit = 0 THEN Put(rec, "title", title)
     ELSE MatchedAssignments(rec, guitars[hit]).rec

\* the candidate list after the matching loop has handled one entry
ListingsAfterEntry(rec, guitars) ==
  [j \in 1..Len(guitars) |->
     IF FirstHit(rec, guitars) = j THEN MatchedAssignments(rec, guitars[j]).guitar
     ELSE guitars[j]]

\* the candidate list after the matching loop has handled every entry
RECURSIVE ListingsAfterLoop(_, _)
ListingsAfterLoop(recs, guitars) ==
  IF recs = <<>> THEN guitars
  ELSE ListingsAfterLoop(Tail(recs), ListingsAfterEntry(Head(recs).v, guitars))

\* the loop over recommendation_data.get("recommendations", []) raises when the
\* value is no list, an entry is no object, or a guitar_title is no text
EnhanceRaises(data) ==
  LET recs == Get(data, "recommendations", List(<<>>))
  IN \/ recs.t # "list"
     \/ \E i \in 1..Len(recs.v) :
          \/ recs.v[i].t # "dict"
          \/ LET title == Get(recs.v[i].v, "guitar_title", PyNone)
             IN Truthy(title) /\ title.t # "str"

\* GuitarRecommendation(**recommendation_data) rejects a record without a
\* textual user_analysis or with a market_insights that is neither text nor null
ValidationRaises(data) ==
  \/ "user_analysis" \notin DOMAIN data
  \/ data["user_analysis"].t # "txt"
  \/ Get(data, "market_insights", PyNone).t \notin {"txt", "none"}

\* the GuitarRecommendation built from the generated record
GeneratedRecommendation(data, guitars) ==
  LET recs == Get(data, "recommendations", List(<<>>)).v
  IN [user_analysis |-> data["user_analysis"].v,
      recommendations |->
        [i \in 1..Len(recs) |-> EnhanceRecommendation(recs[i].v, guitars)],
      market_insights |-> Get(data, "market_insights", PyNone)]

\* the entry built from the first candidate when generation fails
\* (match_score is held in hundredths)
BasicRecommendation(guitar) ==
  [title |-> Str(guitar.title), price |-> Num(guitar.price),
   condition |-> Txt(guitar.condition), image_url |-> Txt(guitar.image_url),
   link |-> Txt(guitar.link), source |-> Txt(guitar.source),
   match_score |-> Num(85), why_perfect |-> Txt("matches your requirements"),
   pros |-> Txt("default pros"), cons |-> Txt("default cons"),
   best_for |-> Txt("Perfect for your musical style")]

\* the fallback's user_analysis formats both budgets with a thousands separator,
\* which raises for a budget that is no number
FallbackRaises(analysis) ==
  \/ Get(analysis, "budget_min", Num(0)).t # "num"
  \/ Get(analysis, "budget_max", Num(0)).t # "num"

FallbackRecommendation(guitars) ==
  [user_analysis |-> "Looking for a guitar within budget range",
   recommendations |-> [i \in 1..Len(Prefix(guitars, 1)) |-> BasicRecommendation(guitars[i])],
   market_insights |-> Txt("Using curated guitar database for reliable recommendations.")]

\* the empty result without its explanatory text
EmptyRecommendationNoInsights ==
  [user_analysis |-> "I understood your requirements but couldn't find matching guitars",
   recommendations |-> <<>>,
   market_insights |-> PyNone]

EmptyRecommendation ==
  [user_analysis |-> "I understood your requirements but couldn't find matching guitars",
   recommendations |-> <<>>,
   market_insights |-> Txt("No suitable guitars found.")]

ErrorRecommendation ==
  [user_analysis |-> "I encountered an error while processing your guitar search request.",
   recommendations |-> <<>>,
   market_insights |-> Txt("Technical issue occurred during search.")]

(***************************************************************************)
(* State                                                                   *)
(***************************************************************************)
VARIABLES
  pc,                 \* per caller: where its call of the pipeline stands
  agent_of,           \* per caller: the agent object it calls (0: none yet)
  call_id,            \* per caller: the number of the call it is making
  ncalls,             \* calls of find_guitars_with_explanation started so far
  user_query,         \* per caller: the argument of the call
  analysis,           \* per caller: local of find_guitars_with_explanation
  search_params,      \* per caller: local of find_guitars_with_explanation
  guitars,            \* per caller: local of find_guitars_with_explanation
  recommendations,    \* per caller: local of find_guitars_with_explanation
  returned,           \* per caller: what the call handed back (<<>>: not yet)
  reasoning_trace,    \* per agent: self.reasoning_trace
  tools_used,         \* per agent: self.tools_used
  knowledge_applied,  \* per agent: self.knowledge_applied
  search_parameters,  \* per agent: self.search_parameters (<<>>: the empty dict,
                      \* else the one filter stored, as an entry)
  llm_log,            \* per caller: generation calls made during the call
  search_log,         \* per caller: outcome of each listing-source call
  step_log,           \* per caller: the steps started during the call, each with
                      \* the argument it was given
  rec_prompt,         \* per caller: the variable parts of the recommendation
                      \* prompts sent during the call
  rec_response,       \* per caller: the answers to those prompts
  intent_response,    \* per caller: the answers to the intent prompts of the call
  context_log,        \* per caller: the knowledge contexts step 1 built in the call,
                      \* each with the answer to the elaboration call, if made
  stub,               \* canned responses of deterministic collaborators
  results_log         \* with canned collaborators: the results returned so far

\* The parts of the repository the pipeline of EnhancedGuitarAgent does not drive
\* have their own state; the pipeline's actions leave it alone.
VARIABLES
  kb,                 \* the last knowledge-base lookup made: table, input, result
  fence,              \* a generated text and what the fence stripping made of it
  mock,               \* MockGuitarScraper: the prices held by the shared MOCK_GUITARS
                      \* table, and the last search made
  cache,              \* a caching BaseScraper: its cache, the clock, the searches made
  legacy              \* a call of GuitarSearchAgent.find_guitars

Idle == [op |-> "idle"]
aux == <<kb, fence, mock, cache, legacy>>

\* MockGuitarScraper.MOCK_GUITARS as the module is loaded: the listings in table
\* order, each with the brand key it is filed under and its price
MOCK_GUITARS ==
  << [brand |-> <<"f","e","n","d","e","r">>,
      title |-> <<"F","e","n","d","e","r"," ","A","m","e","r","i","c","a","n"," ","U","l","t","r","a"," ","S","t","r","a","t","o","c","a","s","t","e","r"," ","-"," ","A","s","h"," ","B","o","d","y"," ","N","a","t","u","r","a","l">>,
      price |-> 2399, condition |-> "Mint",
      image_url |-> "https://www.fender.com/cdn/assets/models/instruments/carousel/0118012747_fen_ins_crl_frt_1_rr.jpg",
      link |-> "https://www.fender.com/en-US/electric-guitars/stratocaster/american-ultra-stratocaster/",
      source |-> "Fender"],
     [brand |-> <<"f","e","n","d","e","r">>,
      title |-> <<"F","e","n","d","e","r"," ","P","l","a","y","e","r"," ","S","t","r","a","t","o","c","a","s","t","e","r"," ","-"," ","3","-","C","o","l","o","r"," ","S","u","n","b","u","r","s","t">>,
      price |-> 899, condition |-> "Excellent",
      image_url |-> "https://www.fender.com/cdn/assets/models/instruments/carousel/0144502500_fen_ins_crl_frt_1_rr.jpg",
      link |-> "https://www.fender.com/en-US/electric-guitars/stratocaster/player-stratocaster/",
      source |-> "Fender"],
     [brand |-> <<"f","e","n","d","e","r">>,
      title |-> <<"F","e","n","d","e","r"," ","A","m","e","r","i","c","a","n"," ","P","r","o","f","e","s","s","i","o","n","a","l"," ","I","I"," ","S","t","r","a","t","o","c","a","s","t","e","r"," ","-"," ","M","i","a","m","i"," ","B","l","u","e">>,
      price |-> 1699, condition |-> "Mint",
      image_url |-> "https://www.fender.com/cdn/assets/models/instruments/carousel/0113902719_fen_ins_crl_frt_1_rr.jpg",
      link |-> "https://www.fender.com/en-US/electric-guitars/stratocaster/american-professional-ii-stratocaster/",
      source |-> "Fender"],
     [brand |-> <<"f","e","n","d","e","r">>,
      title |-> <<"F","e","n","d","e","r"," ","P","l","a","y","e","r"," ","T","e","l","e","c","a","s","t","e","r"," ","-"," ","B","u","t","t","e","r","s","c","o","t","c","h"," ","B","l","o","n","d","e">>,
      price |-> 849, condition |-> "Excellent",
      image_url |-> "https://images.reverb.com/image/upload/s--def456--/f_auto,t_large/v9101/fender-tele.jpg",
      link |-> "https://www.fender.com/en-US/electric-guitars/telecaster/player-telecaster/",
      source |-> "Fender"],
     [brand |-> <<"f","e","n","d","e","r">>,
      title |-> <<"F","e","n","d","e","r"," ","V","i","n","t","e","r","a"," ","'","6","0","s"," ","S","t","r","a","t","o","c","a","s","t","e","r"," ","-"," ","O","l","y","m","p","i","c"," ","W","h","i","t","e">>,
      price |-> 1149, condition |-> "Very Good",
      image_url |-> "https://images.reverb.com/image/upload/s--ghi789--/f_auto,t_large/v1112/fender-vintera.jpg",
      link |-> "https://www.fender.com/en-US/electric-guitars/stratocaster/vintera-60s-stratocaster/",
      source |-> "Fender"],
     [brand |-> <<"f","e","n","d","e","r">>,
      title |-> <<"F","e","n","d","e","r"," ","A","m","e","r","i","c","a","n"," ","U","l","t","r","a"," ","S","t","r","a","t","o","c","a","s","t","e","r"," ","-"," ","T","e","x","a","s"," ","T","e","a">>,
      price |-> 2199, condition |-> "Mint",
      image_url |-> "https://images.reverb.com/image/upload/s--jkl012--/f_auto,t_large/v1314/fender-ultra.jpg",
      link |-> "https://www.fender.com/en-US/electric-guitars/stratocaster/american-ultra-stratocaster/",
      source |-> "Fender"],
     [brand |-> <<"f","e","n","d","e","r">>,
      title |-> <<"F","e","n","d","e","r"," ","A","m","e","r","i","c","a","n"," ","U","l","t","r","a"," ","S","t","r","a","t","o","c","a","s","t","e","r"," ","H","S","S"," ","-"," ","A","s","h"," ","B","o","d","y",","," ","P","a","u"," ","F","e","r","r","o"," ","F","r","e","t","b","o","a","r","d",","," ","Q","u","a","r","t","e","r","s","a","w","n"," ","M","a","p","l","e"," ","N","e","c","k">>,
      price |-> 2299, condition |-> "Mint",
      image_url |-> "https://images.reverb.com/image/upload/s--fender-custom--/f_auto,t_large/v2024/fender-ultra-hss-ash.jpg",
      link |-> "https://www.fender.com/en-US/electric-guitars/stratocaster/american-ultra-stratocaster-hss/",
      source |-> "Fender"],
     [brand |-> <<"g","i","b","s","o","n">>,
      title |-> <<"G","i","b","s","o","n"," ","L","e","s"," ","P","a","u","l"," ","S","t","a","n","d","a","r","d"," ","5","0","s"," ","-"," ","H","e","r","i","t","a","g","e"," ","C","h","e","r","r","y"," ","S","u","n","b","u","r","s","t">>,
      price |-> 2699, condition |-> "Excellent",
      image_url |-> "https://www.gibson.com/media/catalog/product/l/p/lps5p00hcnh_main_01.png",
      link |-> "https://www.gibson.com/en-US/Guitar/Les-Paul-Standard-50s",
      source |-> "Gibson"],
     [brand |-> <<"g","i","b","s","o","n">>,
      title |-> <<"G","i","b","s","o","n"," ","L","e","s"," ","P","a","u","l"," ","S","t","u","d","i","o"," ","-"," ","E","b","o","n","y">>,
      price |-> 1599, condition |-> "Very Good",
      image_url |-> "https://www.gibson.com/media/catalog/product/l/p/lpst00ebch_main_01.png",
      link |-> "https://www.gibson.com/en-US/Guitar/Les-Paul-Studio",
      source |-> "Gibson"],
     [brand |-> <<"g","i","b","s","o","n">>,
      title |-> <<"G","i","b","s","o","n"," ","S","G"," ","S","t","a","n","d","a","r","d"," ","-"," ","C","h","e","r","r","y"," ","R","e","d">>,
      price |-> 1899, condition |-> "Excellent",
      image_url |-> "https://www.gibson.com/media/catalog/product/s/g/sgs00hcch_main_01.png",
      link |-> "https://www.gibson.com/en-US/Guitar/SG-Standard",
      source |-> "Gibson"],
     [brand |-> <<"e","p","i","p","h","o","n","e">>,
      title |-> <<"E","p","i","p","h","o","n","e"," ","L","e","s"," ","P","a","u","l"," ","S","t","a","n","d","a","r","d"," ","5","0","s"," ","-"," ","H","e","r","i","t","a","g","e"," ","C","h","e","r","r","y"," ","S","u","n","b","u","r","s","t">>,
      price |-> 649, condition |-> "Excellent",
      image_url |-> "https://images.reverb.com/image/upload/s--vwx234--/f_auto,t_large/v2122/epi-lp-std.jpg",
      link |-> "https://reverb.com/item/90123-epiphone-les-paul-standard",
      source |-> "Reverb"],
     [brand |-> <<"e","p","i","p","h","o","n","e">>,
      title |-> <<"E","p","i","p","h","o","n","e"," ","C","a","s","i","n","o"," ","-"," ","N","a","t","u","r","a","l">>,
      price |-> 849, condition |-> "Very Good",
      image_url |-> "https://images.reverb.com/image/upload/s--yz567--/f_auto,t_large/v2324/epi-casino.jpg",
      link |-> "https://reverb.com/item/01234-epiphone-casino",
      source |-> "Reverb"],
     [brand |-> <<"p","r","s">>,
      title |-> <<"P","R","S"," ","S","E"," ","C","u","s","t","o","m"," ","2","4"," ","-"," ","V","i","n","t","a","g","e"," ","S","u","n","b","u","r","s","t">>,
      price |-> 929, condition |-> "Excellent",
      image_url |-> "https://images.reverb.com/image/upload/s--abc890--/f_auto,t_large/v2526/prs-se-24.jpg",
      link |-> "https://reverb.com/item/12345-prs-se-custom-24",
      source |-> "Reverb"],
     [brand |-> <<"p","r","s">>,
      title |-> <<"P","R","S"," ","S","2"," ","C","u","s","t","o","m"," ","2","4"," ","-"," ","F","r","o","s","t"," ","B","l","u","e"," ","M","e","t","a","l","l","i","c">>,
      price |-> 1599, condition |-> "Mint",
      image_url |-> "https://images.reverb.com/image/upload/s--def123--/f_auto,t_large/v2728/prs-s2.jpg",
      link |-> "https://reverb.com/item/23456-prs-s2-custom-24",
      source |-> "Reverb"],
     [brand |-> <<"i","b","a","n","e","z">>,
      title |-> <<"I","b","a","n","e","z"," ","R","G","5","5","0"," ","-"," ","D","e","s","e","r","t"," ","S","u","n"," ","Y","e","l","l","o","w">>,
      price |-> 1099, condition |-> "Excellent",
      image_url |-> "https://images.reverb.com/image/upload/s--ghi456--/f_auto,t_large/v2930/ibanez-rg550.jpg",
      link |-> "https://reverb.com/item/34567-ibanez-rg550",
      source |-> "Reverb"],
     [brand |-> <<"i","b","a","n","e","z">>,
      title |-> <<"I","b","a","n","e","z"," ","R","G","7","3","2","1"," ","7","-","S","t","r","i","n","g"," ","-"," ","B","l","a","c","k">>,
      price |-> 1599, condition |-> "Excellent",
      image_url |-> "https://images.reverb.com/image/upload/s--metal123--/f_auto,t_large/v4567/ibanez-rg7321.jpg",
      link |-> "https://reverb.com/item/56789-ibanez-rg7321",
      source |-> "Reverb"],
     [brand |-> <<"i","b","a","n","e","z">>,
      title |-> <<"I","b","a","n","e","z"," ","A","r","t","c","o","r","e"," ","A","S","7","3"," ","-"," ","T","o","b","a","c","c","o"," ","B","r","o","w","n">>,
      price |-> 449, condition |-> "Very Good",
      image_url |-> "https://images.reverb.com/image/upload/s--jkl789--/f_auto,t_large/v3132/ibanez-as73.jpg",
      link |-> "https://www.ibanez.com/usa/products/detail/as73_00_01.html",
      source |-> "Reverb"],
     [brand |-> <<"s","c","h","e","c","t","e","r">>,
      title |-> <<"S","c","h","e","c","t","e","r"," ","H","e","l","l","r","a","i","s","e","r"," ","C","-","1"," ","-"," ","S","a","t","i","n"," ","B","l","a","c","k">>,
      price |-> 1749, condition |-> "Mint",
      image_url |-> "https://images.reverb.com/image/upload/s--schecter01--/f_auto,t_large/v5678/schecter-hellraiser.jpg",
      link |-> "https://www.schecterguitars.com/guitars/hellraiser-c-1",
      source |-> "Reverb"],
     [brand |-> <<"s","c","h","e","c","t","e","r">>,
      title |-> <<"S","c","h","e","c","t","e","r"," ","O","m","e","n"," ","E","x","t","r","e","m","e","-","6"," ","F","R"," ","-"," ","S","e","e"," ","T","h","r","u"," ","B","l","a","c","k"," ","C","h","e","r","r","y">>,
      price |-> 1299, condition |-> "Excellent",
      image_url |-> "https://images.reverb.com/image/upload/s--schecter02--/f_auto,t_large/v6789/schecter-omen.jpg",
      link |-> "https://www.schecterguitars.com/guitars/omen-extreme-6-fr",
      source |-> "Reverb"],
     [brand |-> <<"e","s","p">>,
      title |-> <<"E","S","P"," ","L","T","D"," ","E","C","-","1","0","0","0"," ","-"," ","B","l","a","c","k">>,
      price |-> 1799, condition |-> "Excellent",
      image_url |-> "https://www.espguitars.com/sites/default/files/products/guitars/EC-1000_Black_Front.jpg",
      link |-> "https://www.espguitars.com/products/22748-ec-1000",
      source |-> "ESP Guitars"],
     [brand |-> <<"e","s","p">>,
      title |-> <<"E","S","P"," ","L","T","D"," ","M","H","-","1","0","0","0"," ","F","l","o","y","d"," ","R","o","s","e"," ","-"," ","V","i","o","l","e","t"," ","A","n","d","r","o","m","e","d","a">>,
      price |-> 900, condition |-> "Mint",
      image_url |-> "https://www.espguitars.com/sites/default/files/products/guitars/MH-1000_Violet_Andromeda_Front.jpg",
      link |-> "https://www.espguitars.com/products/22751-mh-1000",
      source |-> "ESP Guitars"] >>
\* the state of the table: the price each listing holds now
CatalogPrices == [i \in 1..Len(MOCK_GUITARS) |-> MOCK_GUITARS[i].price]
MockNew == [prices |-> CatalogPrices, last |-> Idle, searches |-> 0]
\* BaseScraper.__init__
CacheNew(cache_enabled, cache_expiry_minutes) ==
  [cache_enabled |-> cache_enabled, cache_expiry |-> cache_expiry_minutes,
   cache |-> <<>>, now |-> 0, calls |-> 0, last |-> Idle]
AuxIdle ==
  /\ kb = Idle
  /\ fence = Idle
  /\ mock = MockNew
  /\ cache = CacheNew(FALSE, 15)
  /\ legacy = Idle

locals == <<user_query, analysis, search_params, guitars, recommendations, returned>>
traces == <<reasoning_trace, tools_used, knowledge_applied, search_parameters>>
ghosts == <<llm_log, search_log, step_log, rec_prompt, rec_response, intent_response,
           context_log>>
main == <<pc, agent_of, call_id, ncalls, locals, traces, ghosts, stub, results_log>>
vars == <<main, aux>>
not_kb == <<main, fence, mock, cache, legacy>>
not_fence == <<main, kb, mock, cache, legacy>>
not_mock == <<main, kb, fence, cache, legacy>>
not_cache == <<main, kb, fence, mock, legacy>>

\* An entry of an accumulator carries, in place of its timestamp, the number of
\* the call that recorded it.
Entries(items, c) == [i \in 1..Len(items) |-> [item |-> items[i], by |-> c]]
Items(entries) == [i \in 1..Len(entries) |-> entries[i].item]

(***************************************************************************)
(* Collaborators.  A generation response either raises, or is text that    *)
(* does not parse, or parses to a value; a listing-source response either  *)
(* raises or is a list of listings.  With stub.on the collaborators are    *)
(* deterministic: the response to a request made before is the same.       *)
(***************************************************************************)
Raise == [raises |-> TRUE, parses |-> FALSE, value |-> PyNone]
Unparseable == [raises |-> FALSE, parses |-> FALSE, value |-> PyNone]
Parsed(x) == [raises |-> FALSE, parses |-> TRUE, value |-> x]
SearchRaise == [raises |-> TRUE, listings |-> <<>>]
Found(l) == [raises |-> FALSE, listings |-> l]

StubAllows(memo, request, r) ==
  (stub.on /\ request \in DOMAIN memo) => memo[request] = r
Remember(memo, request, r) == IF stub.on THEN (request :> r) @@ memo ELSE memo
NoStub == [on |-> FALSE, dyn |-> <<>>, intent |-> <<>>, rec |-> <<>>, search |-> <<>>]
FreshStub == [NoStub EXCEPT !.on = TRUE]

\* the part of the candidates the recommendation prompt shows
guitars_text(gs) ==
  [i \in 1..Len(Prefix(gs, 15)) |-> <<gs[i].title, gs[i].price, gs[i].condition>>]

(***************************************************************************)
(* EnhancedGuitarAgent                                                     *)
(***************************************************************************)
Set(f, x, val) == [f EXCEPT ![x] = val]
\* the accumulators once agent a is constructed (__init__): empty for a new agent
Construct(f, a) == [i \in DOMAIN f \cup {a} |-> IF i \in DOMAIN f THEN f[i] ELSE <<>>]

\* a reset that forgets the tool-use records
ResetKeepsTools(a) ==
  [reasoning_trace |-> Set(reasoning_trace, a, <<>>),
   tools_used |-> tools_used,
   knowledge_applied |-> Set(knowledge_applied, a, <<>>),
   search_parameters |-> Set(search_parameters, a, <<>>)]

\* a reset that forgets the knowledge tags
ResetKeepsKnowledge(a) ==
  [reasoning_trace |-> Set(reasoning_trace, a, <<>>),
   tools_used |-> Set(tools_used, a, <<>>),
   knowledge_applied |-> knowledge_applied,
   search_parameters |-> Set(search_parameters, a, <<>>)]

\* _reset_traces: the four accumulators of agent a after it
_reset_traces(a) ==
  [reasoning_trace |-> Set(reasoning_trace, a, <<>>),
   tools_used |-> Set(tools_used, a, <<>>),
   knowledge_applied |-> Set(knowledge_applied, a, <<>>),
   search_parameters |-> Set(search_parameters, a, <<>>)]

\* entry of find_guitars_with_explanation: reset, then the first reasoning step
find_guitars_with_explanation(t) ==
  /\ pc[t] = "enter"
  /\ UNCHANGED aux
  /\ LET a == agent_of[t]
         fresh == _reset_traces(a)
     IN /\ reasoning_trace' =
             Set(fresh.reasoning_trace, a,
                 fresh.reasoning_trace[a]
                   \o Entries(<<"Starting comprehensive guitar search">>, call_id[t]))
        /\ tools_used' = fresh.tools_used
        /\ knowledge_applied' = fresh.knowledge_applied
        /\ search_parameters' = fresh.search_parameters
  /\ pc' = Set(pc, t, "step1")
  /\ UNCHANGED <<agent_of, call_id, ncalls, locals, ghosts, stub, results_log>>

\* step1_analyze_user_intent, with _extract_relevant_knowledge and
\* _generate_dynamic_knowledge
step1_analyze_user_intent(t, DynPool, IntentPool) ==
  /\ pc[t] = "step1"
  /\ UNCHANGED aux
  /\ LET a == agent_of[t]
         c == call_id[t]
         q == user_query[t]
         static == StaticKnowledge(q)
         needDyn == static = <<>>
     IN \E d \in (IF needDyn THEN DynPool ELSE {Raise}), r \in IntentPool :
          LET dynOk == needDyn /\ ~d.raises
              tags == static \o (IF dynOk THEN <<DynamicTag>> ELSE <<>>)
              knowledge_context ==
                [parts |-> static, dynamic |-> IF dynOk THEN <<d.value>> ELSE <<>>]
              prompt == <<q, knowledge_context>>
              post == IF r.raises \/ ~r.parses
                      THEN [raised |-> TRUE, analysis |-> <<>>]
                      ELSE ApplyBudgetFlexibility(r.value)
          IN /\ needDyn => StubAllows(stub.dyn, q, d)
             /\ StubAllows(stub.intent, prompt, r)
             /\ stub' = [stub EXCEPT
                           !.dyn = IF needDyn THEN Remember(@, q, d) ELSE @,
                           !.intent = Remember(@, prompt, r)]
             /\ step_log' = Set(step_log, t, Append(step_log[t], [step |-> 1, arg |-> q]))
             /\ intent_response' = Set(intent_response, t, Append(intent_response[t], r))
             /\ context_log' =
                  Set(context_log, t,
                      Append(context_log[t],
                             [context |-> knowledge_context,
                              elaboration |-> IF needDyn THEN <<d>> ELSE <<>>]))
             /\ llm_log' = Set(llm_log, t,
                               llm_log[t] \o (IF needDyn THEN <<"dynamic">> ELSE <<>>)
                                          \o <<"intent">>)
             /\ knowledge_applied' =
                  Set(knowledge_applied, a, knowledge_applied[a] \o Entries(tags, c))
             /\ reasoning_trace' =
                  Set(reasoning_trace, a,
                      reasoning_trace[a]
                        \o Entries(<<"Analyzing user query for guitar requirements">>
                                   \o (IF post.raised THEN <<>> ELSE <<"User wants">>), c))
             /\ tools_used' =
                  Set(tools_used, a,
                      tools_used[a]
                        \o Entries(IF post.raised THEN <<>> ELSE <<"UserIntentAnalysis">>, c))
             /\ analysis' = Set(analysis, t,
                                IF post.raised THEN FallbackAnalysis ELSE post.analysis)
  /\ pc' = Set(pc, t, "step2")
  /\ UNCHANGED <<agent_of, call_id, ncalls, user_query, search_params, guitars,
                 recommendations, returned, search_parameters, search_log, rec_prompt,
                 rec_response, results_log>>

\* step2_determine_search_strategy
step2_determine_search_strategy(t) ==
  /\ pc[t] = "step2"
  /\ UNCHANGED aux
  /\ LET a == agent_of[t]
         c == call_id[t]
         st == SearchStrategy(analysis[t])
     IN /\ reasoning_trace' =
             Set(reasoning_trace, a, reasoning_trace[a] \o Entries(st.steps, c))
        /\ IF st.raised
           THEN /\ pc' = Set(pc, t, "except")
                /\ UNCHANGED <<search_parameters, tools_used, search_params>>
           ELSE /\ pc' = Set(pc, t, "step3")
                /\ search_parameters' = Set(search_parameters, a, Entries(<<st.params>>, c))
                /\ tools_used' =
                     Set(tools_used, a, tools_used[a] \o Entries(<<"SearchStrategy">>, c))
                /\ search_params' = Set(search_params, t, st.params)
  /\ step_log' = Set(step_log, t, Append(step_log[t], [step |-> 2, arg |-> analysis[t]]))
  /\ UNCHANGED <<agent_of, call_id, ncalls, user_query, analysis, guitars,
                 recommendations, returned, knowledge_applied, llm_log, search_log,
                 rec_prompt, rec_response, intent_response, context_log, stub,
                 results_log>>

\* a second search whatever the first did
RetriesAlways(first) == TRUE

\* whether step3_search_guitars searches a second time: when the first search raised
Retries(first) == first.raises

\* a third attempt after two that raised
SearchAttemptsWithThird(first, second) ==
  <<IF first.raises THEN "raise" ELSE "ok">>
  \o (IF Retries(first)
      THEN <<IF second.raises THEN "raise" ELSE "ok">>
           \o (IF second.raises THEN <<"raise">> ELSE <<>>)
      ELSE <<>>)

\* the calls of mock_scraper.search step3_search_guitars makes, each with its
\* outcome: one in the try, one more in the handler of the first
SearchAttempts(first, second) ==
  <<IF first.raises THEN "raise" ELSE "ok">>
  \o (IF Retries(first) THEN <<IF second.raises THEN "raise" ELSE "ok">> ELSE <<>>)

\* step3_search_guitars: the search, and the second attempt when the first raises
step3_search_guitars(t, SearchPool) ==
  /\ pc[t] = "step3"
  /\ UNCHANGED aux
  /\ LET a == agent_of[t]
         c == call_id[t]
         sp == search_params[t]
     IN \E first \in SearchPool :
          \E second \in (IF Retries(first) THEN SearchPool ELSE {first}) :
            /\ StubAllows(stub.search, sp, first)
            /\ stub.on => second = first
            /\ stub' = [stub EXCEPT !.search = Remember(@, sp, first)]
            /\ step_log' = Set(step_log, t, Append(step_log[t], [step |-> 3, arg |-> sp]))
            /\ search_log' = Set(search_log, t, search_log[t] \o SearchAttempts(first, second))
            /\ reasoning_trace' =
                 Set(reasoning_trace, a,
                     reasoning_trace[a]
                       \o Entries(<<"Searching for guitars with budget",
                                    "Using curated guitar database for reliable results">>
                                  \o (IF ~first.raises THEN <<"Retrieved guitars for analysis">>
                                      ELSE <<"Live search blocked by website">>
                                           \o (IF ~second.raises
                                               THEN <<"Retrieved demonstration guitars">>
                                               ELSE <<"Both live and demonstration search failed">>)),
                                  c))
            /\ tools_used' =
                 Set(tools_used, a,
                     tools_used[a]
                       \o Entries(IF second.raises THEN <<>> ELSE <<"MockGuitarSearch">>, c))
            /\ guitars' = Set(guitars, t, IF second.raises THEN <<>> ELSE second.listings)
  /\ pc' = Set(pc, t, "step4")
  /\ UNCHANGED <<agent_of, call_id, ncalls, user_query, analysis, search_params,
                 recommendations, returned, knowledge_applied, search_parameters,
                 llm_log, rec_prompt, rec_response, intent_response, context_log,
                 results_log>>

\* a prompt that also shows the reasoning steps recorded so far
PromptWithReasoning(query, an, gs, knowledge, reasoning, tools) ==
  <<query, an, knowledge, guitars_text(gs), reasoning>>

\* the variable parts of recommendation_prompt: the query, the requirement
\* record, the knowledge tags and the candidates shown; of the three accumulators
\* the text reads knowledge_applied only
recommendation_prompt(query, an, gs, knowledge, reasoning, tools) ==
  <<query, an, knowledge, guitars_text(gs)>>

\* the empty-candidate test left out
NoCandidatesNever(gs) == FALSE

\* "if not guitars": the candidate list is empty
NoCandidates(gs) == gs = <<>>

\* step4_analyze_and_recommend
step4_analyze_and_recommend(t, RecPool) ==
  /\ pc[t] = "step4"
  /\ UNCHANGED aux
  /\ LET a == agent_of[t]
         c == call_id[t]
         gs == guitars[t]
         first_step == <<"Analyzing guitars and generating personalized recommendations">>
     IN IF NoCandidates(gs)
        THEN /\ recommendations' = Set(recommendations, t, EmptyRecommendation)
             /\ reasoning_trace' =
                  Set(reasoning_trace, a, reasoning_trace[a] \o Entries(first_step, c))
             /\ pc' = Set(pc, t, "finish")
             /\ UNCHANGED <<tools_used, llm_log, rec_prompt, rec_response, stub, guitars>>
        ELSE \E r \in RecPool :
               LET prompt == recommendation_prompt(user_query[t], analysis[t], gs,
                                                   Items(knowledge_applied[a]),
                                                   Items(reasoning_trace[a]),
                                                   Items(tools_used[a]))
                   enhanced == ~r.raises /\ r.parses /\ r.value.t = "dict"
                               /\ ~EnhanceRaises(r.value.v)
                   generated == enhanced /\ ~ValidationRaises(r.value.v)
               IN /\ StubAllows(stub.rec, prompt, r)
                  /\ stub' = [stub EXCEPT !.rec = Remember(@, prompt, r)]
                  /\ guitars' =
                       Set(guitars, t,
                           IF enhanced
                           THEN ListingsAfterLoop(
                                  Get(r.value.v, "recommendations", List(<<>>)).v, gs)
                           ELSE gs)
                  /\ llm_log' = Set(llm_log, t, Append(llm_log[t], "recommend"))
                  /\ rec_prompt' = Set(rec_prompt, t, Append(rec_prompt[t], prompt))
                  /\ rec_response' = Set(rec_response, t, Append(rec_response[t], r))
                  /\ reasoning_trace' =
                       Set(reasoning_trace, a,
                           reasoning_trace[a]
                             \o Entries(first_step
                                        \o (IF enhanced
                                            THEN <<"Created detailed recommendations">>
                                            ELSE <<>>), c))
                  /\ tools_used' =
                       Set(tools_used, a,
                           tools_used[a]
                             \o Entries(IF enhanced THEN <<"RecommendationGeneration">>
                                        ELSE <<>>, c))
                  /\ IF generated
                     THEN /\ recommendations' =
                               Set(recommendations, t,
                                   GeneratedRecommendation(r.value.v, gs))
                          /\ pc' = Set(pc, t, "finish")
                     ELSE IF FallbackRaises(analysis[t])
                     THEN /\ pc' = Set(pc, t, "except")
                          /\ UNCHANGED recommendations
                     ELSE /\ recommendations' =
                               Set(recommendations, t, FallbackRecommendation(gs))
                          /\ pc' = Set(pc, t, "finish")
  /\ step_log' = Set(step_log, t, Append(step_log[t], [step |-> 4, arg |-> guitars[t]]))
  /\ UNCHANGED <<agent_of, call_id, ncalls, user_query, analysis, search_params,
                 returned, knowledge_applied, search_parameters, search_log,
                 intent_response, context_log, results_log>>

\* what the caller holds once the call is over; with canned collaborators the
\* result is also kept for comparison with the results of the other calls
Return(t, value) ==
  /\ returned' = Set(returned, t, value)
  /\ pc' = Set(pc, t, "returned")
  /\ results_log' =
       IF stub.on
       THEN Append(results_log,
                   [query |-> user_query[t], recommendation |-> value.recommendation])
       ELSE results_log

\* the end of the try block: the explanation shares the accumulators, so the
\* closing reasoning step shows in it
ReturnResult(t) ==
  /\ pc[t] = "finish"
  /\ UNCHANGED aux
  /\ LET a == agent_of[t]
         closing == Entries(<<"Guitar search and analysis completed successfully">>,
                            call_id[t])
     IN /\ reasoning_trace' = Set(reasoning_trace, a, reasoning_trace[a] \o closing)
        /\ Return(t, [kind |-> "pair",
                      recommendation |-> recommendations[t],
                      explanation |->
                        [reasoning_steps |-> reasoning_trace[a] \o closing,
                         tools_used |-> tools_used[a],
                         knowledge_applied |-> knowledge_applied[a],
                         search_parameters |-> search_parameters[a],
                         user_analysis |-> analysis[t],
                         guitars_found |-> Len(guitars[t]),
                         analysis_confidence |-> Get(analysis[t], "confidence", Num(80)),
                         processing_complete |-> TRUE]])
  /\ UNCHANGED <<agent_of, call_id, ncalls, user_query, analysis, search_params, guitars,
                 recommendations, tools_used, knowledge_applied, search_parameters,
                 ghosts, stub>>

\* an except block that lets the exception through to the caller
ReturnErrorReraises(t) ==
  /\ pc[t] = "except"
  /\ UNCHANGED aux
  /\ pc' = Set(pc, t, "raised")
  /\ UNCHANGED <<agent_of, call_id, ncalls, locals, traces, ghosts, stub, results_log>>

\* the except block of find_guitars_with_explanation
ReturnError(t) ==
  /\ pc[t] = "except"
  /\ UNCHANGED aux
  /\ LET a == agent_of[t]
     IN Return(t, [kind |-> "pair",
                   recommendation |-> ErrorRecommendation,
                   explanation |->
                     [reasoning_steps |-> reasoning_trace[a],
                      tools_used |-> tools_used[a],
                      knowledge_applied |-> knowledge_applied[a],
                      processing_complete |-> FALSE]])
  /\ UNCHANGED <<agent_of, call_id, ncalls, user_query, analysis, search_params, guitars,
                 recommendations, traces, ghosts, stub>>

\* a caller starts (another) call on the agent it holds
Call(t, q, MaxCalls) ==
  /\ pc[t] \in {"idle", "returned"}
  /\ UNCHANGED aux
  /\ agent_of[t] # 0
  /\ ncalls < MaxCalls
  /\ ncalls' = ncalls + 1
  /\ call_id' = Set(call_id, t, ncalls + 1)
  /\ user_query' = Set(user_query, t, q)
  /\ analysis' = Set(analysis, t, <<>>)
  /\ search_params' = Set(search_params, t, <<>>)
  /\ guitars' = Set(guitars, t, <<>>)
  /\ recommendations' = Set(recommendations, t, <<>>)
  /\ returned' = Set(returned, t, <<>>)
  /\ llm_log' = Set(llm_log, t, <<>>)
  /\ search_log' = Set(search_log, t, <<>>)
  /\ step_log' = Set(step_log, t, <<>>)
  /\ rec_prompt' = Set(rec_prompt, t, <<>>)
  /\ rec_response' = Set(rec_response, t, <<>>)
  /\ intent_response' = Set(intent_response, t, <<>>)
  /\ context_log' = Set(context_log, t, <<>>)
  /\ pc' = Set(pc, t, "enter")
  /\ UNCHANGED <<agent_of, traces, stub, results_log>>

\* EnhancedGuitarAgent(): a caller whose call is over makes itself a new agent,
\* with empty accumulators
new_agent(t) ==
  /\ pc[t] = "returned"
  /\ UNCHANGED aux
  /\ reasoning_trace[agent_of[t]] # <<>>
  /\ LET a == Cardinality(DOMAIN reasoning_trace) + 1
     IN /\ agent_of' = Set(agent_of, t, a)
        /\ reasoning_trace' = Construct(reasoning_trace, a)
        /\ tools_used' = Construct(tools_used, a)
        /\ knowledge_applied' = Construct(knowledge_applied, a)
        /\ search_parameters' = Construct(search_parameters, a)
  /\ UNCHANGED <<pc, call_id, ncalls, locals, ghosts, stub, results_log>>

(***************************************************************************)
(* The application (src/app.py)                                            *)
(***************************************************************************)
\* one agent object kept and handed to every session
create_agent_shared(existing) == 1

\* create_agent: a new EnhancedGuitarAgent object, told from the existing ones
create_agent(existing) == Cardinality(existing) + 1

\* search_for_guitars up to its call of find_guitars_with_explanation; configured
\* says whether config.validate() passes, without which no agent is made
search_for_guitars(t, q, configured) ==
  /\ pc[t] = "idle"
  /\ UNCHANGED aux
  /\ agent_of[t] = 0
  /\ IF Strip(q) = <<>>
     THEN /\ pc' = Set(pc, t, "warned")
          /\ UNCHANGED <<agent_of, call_id, ncalls, user_query, traces>>
     ELSE IF ~configured
     THEN /\ pc' = Set(pc, t, "unconfigured")
          /\ UNCHANGED <<agent_of, call_id, ncalls, user_query, traces>>
     ELSE LET a == create_agent(DOMAIN reasoning_trace)
          IN /\ agent_of' = Set(agent_of, t, a)
             /\ reasoning_trace' = Construct(reasoning_trace, a)
             /\ tools_used' = Construct(tools_used, a)
             /\ knowledge_applied' = Construct(knowledge_applied, a)
             /\ search_parameters' = Construct(search_parameters, a)
             /\ ncalls' = ncalls + 1
             /\ call_id' = Set(call_id, t, ncalls + 1)
             /\ user_query' = Set(user_query, t, q)
             /\ pc' = Set(pc, t, "enter")
  /\ UNCHANGED <<analysis, search_params, guitars, recommendations, returned,
                 ghosts, stub, results_log>>

(***************************************************************************)
(* Inputs: queries, generated records, listings                            *)
(***************************************************************************)
MaxCalls == 2
MaxGuitars == 2

q_empty == <<>>
q_slash == <<"s","l","a","s","h">>
q_blues_for_slash == <<"B","l","u","e","s"," ","f","o","r"," ","S","l","a","s","h">>
s_metal == <<"m","e","t","a","l">>
s_Beginner == <<"B","e","g","i","n","n","e","r">>
s_ash_body == <<"A","s","h"," ","b","o","d","y">>

Queries == {q_empty, q_slash, q_blues_for_slash}

\* a key the generated record leaves out
Absent == [t |-> "absent", v |-> 0]
Present(full) == [k \in {k \in DOMAIN full : full[k].t # "absent"} |-> full[k]]

\* the generated intent records with each field drawn from its pool
IntentRecords(BMin, BMax, Flex, Style, Skill, Artist, Features) ==
  {Present([budget_min |-> bmin, budget_max |-> bmax, budget_flexibility |-> flex,
            musical_style |-> style, skill_level |-> skill,
            artist_reference |-> artist, required_features |-> features]) :
     bmin \in BMin, bmax \in BMax, flex \in Flex, style \in Style, skill \in Skill,
     artist \in Artist, features \in Features}

DynPool == {Raise, Parsed(Txt("expert knowledge sections"))}

IntentPool ==
  {Raise, Unparseable, Parsed(PyNone), Parsed(List(<<>>))}
  \cup {Parsed(Dict(d)) :
          d \in IntentRecords({Absent, PyNone, Num(500)}, {Absent, Num(1500)}, {Absent},
                              {Absent, Str(s_metal)}, {Str(s_beginner)}, {Absent},
                              {Absent, PyNone, List(<<Num(7)>>), List(<<Str(s_ash_body)>>)})}

Listing1 ==
  [title |-> <<"F","e","n","d","e","r"," ","P","l","a","y","e","r"," ","S","t","r","a","t","o","c","a","s","t","e","r"," ","-"," ","3","-","C","o","l","o","r"," ","S","u","n","b","u","r","s","t">>,
   price |-> 899, condition |-> "Excellent",
   image_url |-> "https://www.fender.com/cdn/assets/models/instruments/carousel/0144502500_fen_ins_crl_frt_1_rr.jpg",
   link |-> "https://www.fender.com/en-US/electric-guitars/stratocaster/player-stratocaster/",
   source |-> "Fender"]
Listing2 ==
  [title |-> <<"G","i","b","s","o","n"," ","L","e","s"," ","P","a","u","l"," ","S","t","u","d","i","o"," ","-"," ","E","b","o","n","y">>,
   price |-> 1599, condition |-> "Very Good",
   image_url |-> "https://www.gibson.com/media/catalog/product/l/p/lpst00ebch_main_01.png",
   link |-> "https://www.gibson.com/en-US/Guitar/Les-Paul-Studio",
   source |-> "Gibson"]
Catalog == {Listing1, Listing2}

\* the lists of at most n distinct listings
CandidateLists(n) ==
  UNION {{l \in [1..k -> Catalog] : \A i, j \in 1..k : l[i] = l[j] => i = j} : k \in 0..n}

SearchPool == {SearchRaise} \cup {Found(l) : l \in CandidateLists(MaxGuitars)}

\* generated entries: one that names a listing loosely, one that names no listing
\* and states a price and a link of its own, one without a title, one ill-typed
EntryStrat ==
  Dict([rank |-> Num(1), price |-> Num(1),
        guitar_title |-> Str(<<"F","e","n","d","e","r"," ","P","l","a","y","e","r"," ","S","t","r","a","t"," ","S","u","n","b","u","r","s","t">>)])
EntryFlyingV ==
  Dict([rank |-> Num(1), price |-> Num(1234), link |-> Txt("https://made.up/flying-v"),
        guitar_title |-> Str(<<"G","i","b","s","o","n"," ","F","l","y","i","n","g"," ","V">>)])
\* an entry whose title is the one word both listings of the catalog hold
EntryDash == Dict([rank |-> Num(1), price |-> Num(5), guitar_title |-> Str(<<"-">>)])
EntryUntitled == Dict([rank |-> Num(1), price |-> Num(999)])
EntryIllTyped == Dict([rank |-> Num(1), guitar_title |-> Num(5)])

RecData(entries) ==
  Dict([user_analysis |-> Txt("summary of the request"), recommendations |-> List(entries),
        market_insights |-> Txt("observations about availability")])

RecPool ==
  {Raise, Unparseable, Parsed(List(<<>>)),
   Parsed(Dict([recommendations |-> List(<<EntryStrat>>)]))}
  \cup {Parsed(RecData(e)) :
          e \in {<<>>, <<EntryStrat>>, <<EntryFlyingV>>, <<EntryStrat, EntryFlyingV>>,
                 <<EntryUntitled>>, <<EntryIllTyped>>, <<EntryDash>>}}

(***************************************************************************)
(* The pipeline called on one agent                                        *)
(***************************************************************************)
PerCaller(callers, x) == [t \in callers |-> x]

MainWith(callers, agents, st) ==
  /\ pc = PerCaller(callers, "idle")
  /\ agent_of = PerCaller(callers, IF agents = {} THEN 0 ELSE 1)
  /\ call_id = PerCaller(callers, 0)
  /\ ncalls = 0
  /\ user_query = PerCaller(callers, <<>>)
  /\ analysis = PerCaller(callers, <<>>)
  /\ search_params = PerCaller(callers, <<>>)
  /\ guitars = PerCaller(callers, <<>>)
  /\ recommendations = PerCaller(callers, <<>>)
  /\ returned = PerCaller(callers, <<>>)
  /\ reasoning_trace = [a \in agents |-> <<>>]
  /\ tools_used = [a \in agents |-> <<>>]
  /\ knowledge_applied = [a \in agents |-> <<>>]
  /\ search_parameters = [a \in agents |-> <<>>]
  /\ llm_log = PerCaller(callers, <<>>)
  /\ search_log = PerCaller(callers, <<>>)
  /\ step_log = PerCaller(callers, <<>>)
  /\ rec_prompt = PerCaller(callers, <<>>)
  /\ rec_response = PerCaller(callers, <<>>)
  /\ intent_response = PerCaller(callers, <<>>)
  /\ context_log = PerCaller(callers, <<>>)
  /\ stub = st
  /\ results_log = <<>>

InitWith(callers, agents, st) == MainWith(callers, agents, st) /\ AuxIdle

Init == InitWith({"s1"}, {1}, NoStub)

Next ==
  \E t \in {"s1"} :
    \/ \E q \in Queries : Call(t, q, MaxCalls)
    \/ find_guitars_with_explanation(t)
    \/ step1_analyze_user_intent(t, DynPool, IntentPool)
    \/ step2_determine_search_strategy(t)
    \/ step3_search_guitars(t, SearchPool)
    \/ step4_analyze_and_recommend(t, RecPool)
    \/ ReturnResult(t)
    \/ ReturnError(t)

Spec == Init /\ [][Next]_vars

(***************************************************************************)
(* Properties of the pipeline called on one agent (Spec)                   *)
(***************************************************************************)
InCall(t) == pc[t] \in {"enter", "step1", "step2", "step3", "step4", "finish", "except"}
AllRaise(log) == \A i \in 1..Len(log) : log[i] = "raise"
ByCall(entries, c) == \A i \in 1..Len(entries) : entries[i].by = c

\* C1: find_guitars_with_explanation hands back a (GuitarRecommendation,
\* explanation) pair and never raises, whatever the query (the empty one included),
\* whatever the generator raises or returns (unparseable text, ill-typed records)
\* and whatever the listing source raises: no call ends with the exception at the
\* caller, a step that raised is always followed by the except block's return, and
\* a call that is over holds a pair.
C1_AlwaysReturnsPair ==
  \A t \in DOMAIN pc :
    /\ pc[t] # "raised"
    /\ pc[t] = "finish" => ENABLED ReturnResult(t)
    /\ pc[t] = "except" => ENABLED ReturnError(t)
    /\ pc[t] = "returned" =>
         /\ returned[t].kind = "pair"
         /\ DOMAIN returned[t].recommendation =
              {"user_analysis", "recommendations", "market_insights"}
         /\ "processing_complete" \in DOMAIN returned[t].explanation

\* C1 witness: the empty query, answered through the except block after step 2
\* met a required_features that is null
C1_Witness ==
  \E t \in DOMAIN pc :
    /\ pc[t] = "returned"
    /\ user_query[t] = q_empty
    /\ ~returned[t].explanation.processing_complete
    /\ Get(analysis[t], "required_features", Absent) = PyNone

\* the keys a generated entry can hold and the keys reconciliation copies
EntryKeys ==
  {"rank", "guitar_title", "price", "link", "title", "image_url", "condition", "source",
   "match_score", "why_recommended", "why_perfect", "pros", "cons", "best_for",
   "technical_match", "expert_reasoning"}
BoundToListing(rec, gs) ==
  \E i \in 1..Len(gs) :
    /\ PyEq(Get(rec, "title", PyNone), Str(gs[i].title))
    /\ PyEq(Get(rec, "price", PyNone), Num(gs[i].price))
    /\ PyEq(Get(rec, "link", PyNone), Txt(gs[i].link))
\* an entry carries a marker when it holds a key that is neither the generator's
\* nor a listing's
Marked(rec) == ~(DOMAIN rec \subseteq EntryKeys)

\* C2: after step4_analyze_and_recommend on a non-empty candidate list, every
\* entry of recommendations has the (title, price, link) of one of the candidates
\* or carries a marker that it is unreconciled.
C2_EntriesBoundOrMarked ==
  \A t \in DOMAIN pc :
    (pc[t] = "finish" /\ guitars[t] # <<>>) =>
      \A i \in 1..Len(recommendations[t].recommendations) :
        \/ BoundToListing(recommendations[t].recommendations[i], guitars[t])
        \/ Marked(recommendations[t].recommendations[i])

\* C5: step4_analyze_and_recommend called with no candidates returns no
\* recommendations and makes no generation call.
C5_EmptyCandidatesNoGeneration ==
  \A t \in DOMAIN pc :
    (pc[t] \in {"finish", "except"} /\ guitars[t] = <<>> /\ search_log[t] # <<>>) =>
      /\ pc[t] = "finish"
      /\ recommendations[t].recommendations = <<>>
      /\ \A i \in 1..Len(llm_log[t]) : llm_log[t][i] # "recommend"

\* C5 witness: the listing source answered with the empty list and step 4 is over
C5_Witness ==
  \E t \in DOMAIN pc :
    pc[t] = "finish" /\ guitars[t] = <<>> /\ search_log[t] = <<"ok">>

\* C6: step3_search_guitars searches once, searches a second time only if the
\* first search raised, returns the empty list if the second raised too, never
\* searches more than twice and never raises: the step always leads to step 4.
C6_RetrieverRetriesOnce ==
  /\ [](\A t \in DOMAIN pc :
          /\ search_log[t] \in {<<>>, <<"ok">>, <<"raise", "ok">>, <<"raise", "raise">>}
          /\ pc[t] = "step4" =>
               /\ search_log[t] # <<>>
               /\ search_log[t] = <<"raise", "raise">> => guitars[t] = <<>>)
  /\ [][\A t \in DOMAIN pc : pc[t] = "step3" => pc'[t] \in {"step3", "step4"}]_vars

\* C6 witness: both searches raised and the step is over
C6_Witness ==
  \E t \in DOMAIN pc : pc[t] = "step4" /\ search_log[t] = <<"raise", "raise">>

\* C7: when every call of the listing source raises, the call still returns a
\* GuitarRecommendation with no recommendations and a non-empty market_insights,
\* after at most two searches.
C7_TotalRetrievalFailure ==
  \A t \in DOMAIN pc :
    (pc[t] = "returned" /\ AllRaise(search_log[t])) =>
      /\ returned[t].kind = "pair"
      /\ returned[t].recommendation.recommendations = <<>>
      /\ returned[t].recommendation.market_insights.t = "txt"
      /\ returned[t].recommendation.market_insights.v # ""
      /\ Len(search_log[t]) <= 2

\* C7 witness: two searches, both raised, and the call is over
C7_Witness ==
  \E t \in DOMAIN pc :
    /\ pc[t] = "returned"
    /\ search_log[t] = <<"raise", "raise">>
    /\ returned[t].explanation.processing_complete

\* C10: the explanation a call returns holds no reasoning step, tool-use record,
\* knowledge tag or search parameter recorded by an earlier call on the agent, and
\* the accumulators are empty when the first step of a call starts (but for the
\* opening reasoning step of that call).
C10_NoLeakAcrossCalls ==
  \A t \in DOMAIN pc :
    /\ pc[t] = "step1" =>
         /\ Len(reasoning_trace[agent_of[t]]) = 1
         /\ ByCall(reasoning_trace[agent_of[t]], call_id[t])
         /\ tools_used[agent_of[t]] = <<>>
         /\ knowledge_applied[agent_of[t]] = <<>>
         /\ search_parameters[agent_of[t]] = <<>>
    /\ pc[t] = "returned" =>
         /\ ByCall(returned[t].explanation.reasoning_steps, call_id[t])
         /\ ByCall(returned[t].explanation.tools_used, call_id[t])
         /\ ByCall(returned[t].explanation.knowledge_applied, call_id[t])
         /\ returned[t].explanation.processing_complete =>
              ByCall(returned[t].explanation.search_parameters, call_id[t])

\* C10 witness: a second call on the agent is over, and its explanation holds
\* tool-use records, knowledge tags and the filter
C10_Witness ==
  \E t \in DOMAIN pc :
    /\ pc[t] = "returned"
    /\ call_id[t] = 2
    /\ returned[t].explanation.processing_complete
    /\ returned[t].explanation.tools_used # <<>>
    /\ returned[t].explanation.knowledge_applied # <<>>
    /\ returned[t].explanation.search_parameters # <<>>

(***************************************************************************)
(* Steps 1 and 2 on generated records with numeric budgets (SpecBudget)    *)
(***************************************************************************)
\* The budgets a generated record states.  budget_flexibility is absent (the
\* default of 0.2 applies), 0.1 or 0.2: for these the floating-point products the
\* code truncates equal the exact ones for every budget of the pool.
Budgets == {0, 50, 80, 84, 100, 400, 667, 1000, 1500, 2000}
BudgetRecords ==
  {d \in IntentRecords({Num(b) : b \in Budgets}, {Num(b) : b \in Budgets},
                       {Absent, Num(10), Num(20)}, {Absent},
                       {Absent, Str(s_beginner), Str(s_intermediate),
                        Str(s_professional), Str(s_Beginner)},
                       {Absent}, {Absent}) :
     d["budget_min"].v <= d["budget_max"].v}
BudgetPool == {Raise} \cup {Parsed(Dict(d)) : d \in BudgetRecords}

NextBudget ==
  \E t \in {"s1"} :
    \/ \E q \in {q_empty, q_slash} : Call(t, q, MaxCalls)
    \/ find_guitars_with_explanation(t)
    \/ step1_analyze_user_intent(t, DynPool, BudgetPool)
    \/ step2_determine_search_strategy(t)
SpecBudget == Init /\ [][NextBudget]_vars

NumericBudgets(an) ==
  /\ {"budget_min", "budget_max"} \subseteq DOMAIN an
  /\ an["budget_min"].t = "num"
  /\ an["budget_max"].t = "num"

\* C3: every record step1_analyze_user_intent returns, whether made from a
\* generated record with numeric budgets or the fallback record, has
\* budget_min <= budget_max and both budgets at least the floor of 100.
C3_BudgetsOrderedAndFloored ==
  \A t \in DOMAIN pc :
    pc[t] = "step2" =>
      /\ NumericBudgets(analysis[t])
      /\ analysis[t]["budget_min"].v <= analysis[t]["budget_max"].v
      /\ analysis[t]["budget_min"].v >= BUDGET_FLOOR
      /\ analysis[t]["budget_max"].v >= BUDGET_FLOOR

\* C4: every filter step2_determine_search_strategy returns for a record with
\* budget_min <= budget_max has min_price <= max_price, whatever the skill level.
C4_FilterPricesOrdered ==
  \A t \in DOMAIN pc :
    (/\ pc[t] = "step3"
     /\ NumericBudgets(analysis[t])
     /\ analysis[t]["budget_min"].v <= analysis[t]["budget_max"].v) =>
      search_params[t]["min_price"].v <= search_params[t]["max_price"].v

(***************************************************************************)
(* Deterministic collaborators (SpecStub): the generation client answers a *)
(* prompt it has seen with the answer it gave, the listing source answers  *)
(* a filter it has seen with the answer it gave.                           *)
(***************************************************************************)
StubQueries == {q_empty, q_slash}
StubIntentPool ==
  {Raise, Parsed(Dict(Present([budget_min |-> Num(500), budget_max |-> Num(1500),
                               budget_flexibility |-> Absent, musical_style |-> Absent,
                               skill_level |-> Str(s_beginner), artist_reference |-> Absent,
                               required_features |-> Absent]))),
   Parsed(Dict(Present([budget_min |-> Absent, budget_max |-> Absent,
                        budget_flexibility |-> Absent, musical_style |-> Absent,
                        skill_level |-> Absent, artist_reference |-> Absent,
                        required_features |-> PyNone])))}
StubSearchPool == {SearchRaise, Found(<<>>), Found(<<Listing1>>)}
StubRecPool == {Raise, Parsed(RecData(<<EntryStrat>>)), Parsed(RecData(<<EntryFlyingV>>))}

InitStub == InitWith({"s1"}, {1}, FreshStub)
NextStub ==
  \E t \in {"s1"} :
    \/ \E q \in StubQueries : Call(t, q, MaxCalls)
    \/ new_agent(t)
    \/ find_guitars_with_explanation(t)
    \/ step1_analyze_user_intent(t, DynPool, StubIntentPool)
    \/ step2_determine_search_strategy(t)
    \/ step3_search_guitars(t, StubSearchPool)
    \/ step4_analyze_and_recommend(t, StubRecPool)
    \/ ReturnResult(t)
    \/ ReturnError(t)
SpecStub == InitStub /\ [][NextStub]_vars

\* C8: with deterministic collaborators, two calls of find_guitars_with_explanation
\* with the same query, on one agent or on two agents, return the same
\* GuitarRecommendation content.
C8_SameQuerySameResult ==
  \A i, j \in 1..Len(results_log) :
    results_log[i].query = results_log[j].query =>
      results_log[i].recommendation = results_log[j].recommendation

\* C8 witness: the same query answered twice on one agent with generated
\* recommendations, the second answer after a query that made knowledge tags
C8_Witness ==
  /\ Len(results_log) >= 2
  /\ results_log[1].query = results_log[2].query
  /\ results_log[1].recommendation.recommendations # <<>>
  /\ \E t \in DOMAIN pc : pc[t] = "returned" /\ agent_of[t] = 1 /\ call_id[t] = 2

\* C8 witness on two agents is the same with agent_of[t] = 2
C8_WitnessFresh ==
  /\ Len(results_log) >= 2
  /\ results_log[1].query = results_log[2].query
  /\ \E t \in DOMAIN pc : pc[t] = "returned" /\ agent_of[t] = 2 /\ call_id[t] = 2

(***************************************************************************)
(* Two sessions of the application searching at once (SpecApp)             *)
(***************************************************************************)
AppQueries == {q_empty, q_slash, q_blues_for_slash}
AppIntentPool ==
  {Raise, Parsed(Dict(Present([budget_min |-> Absent, budget_max |-> Absent,
                               budget_flexibility |-> Absent, musical_style |-> Absent,
                               skill_level |-> Absent, artist_reference |-> Absent,
                               required_features |-> PyNone])))}
AppSearchPool == {SearchRaise, Found(<<Listing1>>)}
AppRecPool == {Raise, Parsed(RecData(<<EntryStrat>>))}

InitApp == InitWith({"s1", "s2"}, {}, NoStub)
NextApp ==
  \E t \in {"s1", "s2"} :
    \/ \E q \in AppQueries, configured \in BOOLEAN : search_for_guitars(t, q, configured)
    \/ find_guitars_with_explanation(t)
    \/ step1_analyze_user_intent(t, {Raise}, AppIntentPool)
    \/ step2_determine_search_strategy(t)
    \/ step3_search_guitars(t, AppSearchPool)
    \/ step4_analyze_and_recommend(t, AppRecPool)
    \/ ReturnResult(t)
    \/ ReturnError(t)
SpecApp == InitApp /\ [][NextApp]_vars

\* C9: two queries running at once never share or interleave trace accumulators:
\* under every interleaving of the two pipelines' steps, the accumulators a query
\* works on hold only its own entries, and so do the reasoning steps, tool-use
\* records and knowledge tags of the explanation it is given.
C9_ConcurrentTracesIsolated ==
  \A t \in DOMAIN pc :
    /\ pc[t] \in {"step1", "step2", "step3", "step4", "finish", "except"} =>
         /\ ByCall(reasoning_trace[agent_of[t]], call_id[t])
         /\ ByCall(tools_used[agent_of[t]], call_id[t])
         /\ ByCall(knowledge_applied[agent_of[t]], call_id[t])
         /\ reasoning_trace[agent_of[t]] # <<>>
    /\ pc[t] = "returned" =>
         /\ ByCall(returned[t].explanation.reasoning_steps, call_id[t])
         /\ ByCall(returned[t].explanation.tools_used, call_id[t])
         /\ ByCall(returned[t].explanation.knowledge_applied, call_id[t])
         /\ returned[t].explanation.reasoning_steps[1].item
              = "Starting comprehensive guitar search"

\* C9 witness: one query is over, having run from its start to its end while the
\* other was between its first and its last step
C9_Witness ==
  \E s, t \in DOMAIN pc :
    /\ s # t
    /\ call_id[s] < call_id[t]
    /\ pc[s] = "step4"
    /\ tools_used[agent_of[s]] # <<>>
    /\ pc[t] = "returned"
    /\ returned[t].explanation.processing_complete
    /\ returned[t].explanation.knowledge_applied # <<>>

(***************************************************************************)
(* Two runs of the pipeline side by side (SpecTrace): the query names no   *)
(* artist and no genre of the tables, so the knowledge tags depend on      *)
(* whether the generation of dynamic knowledge succeeds.                   *)
(***************************************************************************)
q_x == <<"x">>
TraceQueries == {q_empty, q_x}

NextTrace ==
  \E t \in {"s1", "s2"} :
    \/ \E q \in TraceQueries, configured \in BOOLEAN : search_for_guitars(t, q, configured)
    \/ find_guitars_with_explanation(t)
    \/ step1_analyze_user_intent(t, DynPool, AppIntentPool)
    \/ step2_determine_search_strategy(t)
    \/ step3_search_guitars(t, AppSearchPool)
    \/ step4_analyze_and_recommend(t, AppRecPool)
    \/ ReturnResult(t)
    \/ ReturnError(t)
SpecTrace == InitApp /\ [][NextTrace]_vars

C12_FourStepsInOrder ==
  \A t \in DOMAIN pc :
    /\ \A i \in 1..Len(step_log[t]) : step_log[t][i].step = i
    /\ pc[t] = "returned" =>
         /\ Len(step_log[t]) = 4
         /\ step_log[t][1].arg = user_query[t]
         /\ step_log[t][2].arg = analysis[t]
         /\ step_log[t][3].arg = search_params[t]
         /\ step_log[t][4].arg = guitars[t]

(***************************************************************************)
(* The fallbacks of steps 4 and 1 (Spec)                                   *)
(***************************************************************************)
\* the entry holds the listing's title, price, link, image_url, condition, source
CopiedFrom(rec, guitar) ==
  /\ PyEq(Get(rec, "title", PyNone), Str(guitar.title))
  /\ PyEq(Get(rec, "price", PyNone), Num(guitar.price))
  /\ PyEq(Get(rec, "link", PyNone), Txt(guitar.link))
  /\ PyEq(Get(rec, "image_url", PyNone), Txt(guitar.image_url))
  /\ PyEq(Get(rec, "condition", PyNone), Txt(guitar.condition))
  /\ PyEq(Get(rec, "source", PyNone), Txt(guitar.source))
\* step 4 was started on candidates and did not return a generated result
Step4FellBack(t) ==
  /\ Len(step_log[t]) = 4
  /\ guitars[t] # <<>>
  /\ \/ pc[t] = "except"
     \/ /\ pc[t] \in {"finish", "returned"}
        /\ recommendations[t] # <<>>
        /\ recommendations[t].market_insights =
             FallbackRecommendation(guitars[t]).market_insights

\* C13: when the candidate list is non-empty and the recommendation generation
\* fails or its text does not parse into a valid result,
\* step4_analyze_and_recommend does not raise and returns exactly one
\* recommendation, with the title, price, link, image_url, condition and source of
\* the first candidate.
C13_FallbackFromFirstCandidate ==
  \A t \in DOMAIN pc :
    Step4FellBack(t) =>
      /\ pc[t] # "except"
      /\ Len(recommendations[t].recommendations) = 1
      /\ CopiedFrom(recommendations[t].recommendations[1], guitars[t][1])

\* step 1 is over and recorded no UserIntentAnalysis tool use: the generation
\* call raised, or its text did not parse, or the post-processing raised
Step1Failed(t) ==
  /\ Len(step_log[t]) >= 1
  /\ pc[t] # "step1"
  /\ \A i \in 1..Len(tools_used[agent_of[t]]) :
       tools_used[agent_of[t]][i].item # "UserIntentAnalysis"

\* C14: when the intent generation call raises, or its text cannot be parsed and
\* post-processed, step1_analyze_user_intent does not raise and returns the
\* default record: budget_min 400, budget_max 1200, musical_style rock,
\* skill_level intermediate, guitar_type electric.
C14_IntentFallbackRecord ==
  \A t \in DOMAIN pc :
    /\ pc[t] = "except" => Len(step_log[t]) >= 2
    /\ Step1Failed(t) =>
         /\ Get(analysis[t], "budget_min", PyNone) = Num(400)
         /\ Get(analysis[t], "budget_max", PyNone) = Num(1200)
         /\ Get(analysis[t], "musical_style", PyNone) = Str(<<"r", "o", "c", "k">>)
         /\ Get(analysis[t], "skill_level", PyNone)
              = Str(<<"i", "n", "t", "e", "r", "m", "e", "d", "i", "a", "t", "e">>)
         /\ Get(analysis[t], "guitar_type", PyNone)
              = Str(<<"e", "l", "e", "c", "t", "r", "i", "c">>)

\* C14 witness: step 1 is over, the generation of dynamic knowledge and the
\* intent call were both made, and the default record was returned
C14_Witness ==
  \E t \in DOMAIN pc :
    /\ pc[t] = "step2"
    /\ Step1Failed(t)
    /\ llm_log[t] = <<"dynamic", "intent">>
    /\ analysis[t] = FallbackAnalysis

(***************************************************************************)
(* Reconciliation of generated entries (Spec)                              *)
(***************************************************************************)
\* the distinct lower-cased whitespace-separated words of a title
WordsOf(title) == Range(Split(Lower(title)))
\* the listing's title holds at least 60% of the words of the entry's title
HoldsMostWords(listing, title) ==
  5 * Cardinality(WordsOf(title) \cap WordsOf(listing.title))
    >= 3 * Cardinality(WordsOf(title))
\* the answer to the recommendation prompt was taken as the result
Generated(t) ==
  /\ pc[t] \in {"finish", "returned"}
  /\ Len(rec_response[t]) = 1
  /\ recommendations[t] # <<>>
  /\ recommendations[t].market_insights
       # FallbackRecommendation(guitars[t]).market_insights
GeneratedEntries(t) == rec_response[t][1].value.v["recommendations"].v

\* C15: for each generated entry with a non-empty guitar_title, if the title of
\* some candidate holds at least 60% of the distinct lower-cased words of the
\* entry's title, the entry's title, price, link, image_url, condition and source
\* are those of the first such candidate in candidate order; the generator's
\* price is not kept.
C15_MatchedEntryTakesListing ==
  \A t \in DOMAIN pc :
    Generated(t) =>
      /\ Len(recommendations[t].recommendations) = Len(GeneratedEntries(t))
      /\ \A i \in 1..Len(GeneratedEntries(t)) :
           LET title == Get(GeneratedEntries(t)[i].v, "guitar_title", PyNone)
               hits == {k \in 1..Len(guitars[t]) : HoldsMostWords(guitars[t][k], title.v)}
           IN (title.t = "str" /\ title.v # <<>> /\ hits # {}) =>
                \E k \in hits :
                  /\ \A j \in hits : k <= j
                  /\ CopiedFrom(recommendations[t].recommendations[i], guitars[t][k])

\* C15 witness: 'Fender Player Strat Sunburst', generated with a price of its
\* own, against the Gibson listing followed by the Fender listing, has taken the
\* Fender listing's price
C15_Witness ==
  \E t \in DOMAIN pc :
    /\ Generated(t)
    /\ guitars[t] = <<Listing2, Listing1>>
    /\ GeneratedEntries(t) = <<EntryStrat>>
    /\ PyEq(Get(recommendations[t].recommendations[1], "price", PyNone), Num(899))

(***************************************************************************)
(* Budget widening and the planner's rules (SpecBudget)                    *)
(***************************************************************************)
\* step 1 is over and the intent call answered with a record stating the
\* single budget B twice
SinglePoint(t, B) ==
  /\ Len(intent_response[t]) = 1
  /\ pc[t] # "step1"
  /\ intent_response[t][1].parses
  /\ intent_response[t][1].value.t = "dict"
  /\ Get(intent_response[t][1].value.v, "budget_min", PyNone) = Num(B)
  /\ Get(intent_response[t][1].value.v, "budget_max", PyNone) = Num(B)

\* C16: whenever the parsed record has budget_min = budget_max = B with B > 0,
\* step1_analyze_user_intent returns budget_min = max(100, floor(0.8 B)) and
\* budget_max = floor(1.2 B), whatever budget_flexibility is (1200 and 1800 for
\* B = 1500), and the record it returns never has budget_min = budget_max.
C16_SinglePointWidened ==
  \A t \in DOMAIN pc : \A B \in Budgets \ {0} :
    SinglePoint(t, B) =>
      /\ analysis[t]["budget_min"] = Num(Max(100, (8 * B) \div 10))
      /\ analysis[t]["budget_max"] = Num((12 * B) \div 10)
      /\ B = 1500 => /\ analysis[t]["budget_min"] = Num(1200)
                     /\ analysis[t]["budget_max"] = Num(1800)
      /\ analysis[t]["budget_min"] # analysis[t]["budget_max"]

\* the key under which the record's skill_level resolves in the knowledge base
\* (<<>> when it does not)
ResolvedSkill(an) ==
  LET skill == Get(an, "skill_level", PyNone)
      info == IF skill.t = "str" /\ skill.v # <<>>
              THEN get_skill_level_advice(skill.v) ELSE <<>>
  IN IF info = <<>> THEN <<>> ELSE info[1].key

\* C17: the skill clamp only tightens.  In the filter step 2 returns, max_price is
\* at most budget_max and min_price at least budget_min; when skill_level
\* resolves in the knowledge base as beginner max_price = min(budget_max, 800),
\* and when it resolves as professional min_price = max(budget_min, 1000).
C17_SkillClampTightens ==
  \A t \in DOMAIN pc :
    (pc[t] = "step3" /\ NumericBudgets(analysis[t])) =>
      /\ search_params[t]["max_price"].v <= analysis[t]["budget_max"].v
      /\ search_params[t]["min_price"].v >= analysis[t]["budget_min"].v
      /\ ResolvedSkill(analysis[t]) = s_beginner =>
           search_params[t]["max_price"].v = Min(analysis[t]["budget_max"].v, 800)
      /\ ResolvedSkill(analysis[t]) = s_professional =>
           search_params[t]["min_price"].v = Max(analysis[t]["budget_min"].v, 1000)


(***************************************************************************)
(* Step 2 on generated records that state features, an artist and a style  *)
(* (SpecStrategy)                                                          *)
(***************************************************************************)
s_maple_neck == <<"m","a","p","l","e"," ","n","e","c","k">>
s_HIPSHOT_tuners == <<"H","I","P","S","H","O","T"," ","t","u","n","e","r","s">>
s_polka == <<"p","o","l","k","a">>
s_nobody == <<"n","o","b","o","d","y">>
s_Van_Halen == <<"V","a","n"," ","H","a","l","e","n">>
s_blank == <<" ">>
s_custom == <<"c","u","s","t","o","m">>
s_shop == <<"s","h","o","p">>
StrategyRecords ==
  IntentRecords({Absent, Num(500)}, {Absent}, {Absent},
                {Absent, Str(s_metal), Str(s_polka)}, {Absent},
                {Absent, Str(q_slash), Str(s_nobody), Str(s_Van_Halen), Str(s_blank)},
                {Absent, Str(s_ash_body), List(<<Str(s_maple_neck)>>),
                 List(<<Str(s_ash_body)>>),
                 List(<<Str(s_maple_neck), Str(s_HIPSHOT_tuners)>>),
                 List(<<Str(s_custom), Str(s_shop)>>)})
StrategyPool == {Raise} \cup {Parsed(Dict(d)) : d \in StrategyRecords}

NextStrategy ==
  \E t \in {"s1"} :
    \/ \E q \in {q_empty, q_slash} : Call(t, q, MaxCalls)
    \/ find_guitars_with_explanation(t)
    \/ step1_analyze_user_intent(t, DynPool, StrategyPool)
    \/ step2_determine_search_strategy(t)
SpecStrategy == Init /\ [][NextStrategy]_vars

\* an element of the record's required_features list contains a custom-shop
\* marker, letter case ignored
HasMarkedFeature(an) ==
  LET rf == Get(an, "required_features", PyNone)
  IN /\ rf.t = "list"
     /\ \E i \in 1..Len(rf.v) :
          /\ rf.v[i].t = "str"
          /\ \E k \in 1..Len(custom_shop_keywords) :
               IsSubstr(custom_shop_keywords[k], Lower(rf.v[i].v))

\* C18: whenever an element of required_features contains a custom-shop marker
\* (case-insensitively), the filter step 2 returns has brands exactly the premium
\* override list <<"fender">> and no search_terms, whatever artist_reference and
\* musical_style are.
C18_CustomShopOverride ==
  \A t \in DOMAIN pc :
    (pc[t] = "step3" /\ HasMarkedFeature(analysis[t])) =>
      /\ Get(search_params[t], "brands", <<>>) = <<"fender">>
      /\ "search_terms" \notin DOMAIN search_params[t]

\* C18 witness: step 2 returned a filter for a record whose features hold a
\* marker in upper case and which names a known artist and a known genre
C18_Witness ==
  \E t \in DOMAIN pc :
    /\ pc[t] = "step3"
    /\ HasMarkedFeature(analysis[t])
    /\ Get(analysis[t], "required_features", PyNone)
         = List(<<Str(s_maple_neck), Str(s_HIPSHOT_tuners)>>)
    /\ Get(analysis[t], "artist_reference", PyNone) = Str(q_slash)
    /\ get_artist_info(q_slash) # <<>>
    /\ Get(analysis[t], "musical_style", PyNone) = Str(s_metal)
    /\ get_genre_recommendations(s_metal) # <<>>
    /\ search_params[t]["brands"] = <<"fender">>


\* C19: step2_determine_search_strategy, step3_search_guitars and
\* step4_analyze_and_recommend leave the requirement record unchanged, and
\* step4_analyze_and_recommend leaves every candidate listing unchanged, on the
\* generated path and on the fallback path.
C19_InputsReadOnly ==
  [][\A t \in DOMAIN pc :
       /\ (pc[t] \in {"step2", "step3", "step4"} /\ pc'[t] # pc[t]) =>
            analysis'[t] = analysis[t]
       /\ (pc[t] = "step4" /\ pc'[t] # pc[t]) => guitars'[t] = guitars[t]]_vars

\* C19 witness: step 4 is over on two candidates, a generated entry matched a
\* listing under another title and took the listing's fields, and the record and
\* the candidates are the ones the steps were given
C19_Witness ==
  \E t \in DOMAIN pc :
    /\ pc[t] = "finish"
    /\ Len(step_log[t]) = 4
    /\ Len(guitars[t]) = 2
    /\ analysis[t] = step_log[t][2].arg
    /\ guitars[t] = step_log[t][4].arg
    /\ \E i \in 1..Len(recommendations[t].recommendations) :
         LET rec == recommendations[t].recommendations[i]
         IN /\ "guitar_title" \in DOMAIN rec
            /\ \E j \in 1..2 :
                 /\ CopiedFrom(rec, guitars[t][j])
                 /\ rec["guitar_title"].v # guitars[t][j].title


\* the entries of a recommendations list carry the ranks 1..n, each once
RanksDense(recs) ==
  /\ \A i \in 1..Len(recs) :
       "rank" \in DOMAIN recs[i] /\ recs[i]["rank"].t = "num"
  /\ \A k \in 1..Len(recs) :
       Cardinality({i \in 1..Len(recs) : recs[i]["rank"].v = k}) = 1

\* C20: in every non-empty recommendations list the pipeline returns, on the
\* generated path and on the fallback path, each entry has a rank, and the ranks
\* are exactly 1..n with no gaps and no duplicates.
C20_RanksDenseUnique ==
  \A t \in DOMAIN pc :
    (pc[t] = "returned" /\ returned[t].recommendation.recommendations # <<>>) =>
      RanksDense(returned[t].recommendation.recommendations)


\* the text step 2 searches for custom-shop markers holds one: the features,
\* joined by blanks and lower-cased, contain a marker
MarkerPresent(an) ==
  LET rf == Get(an, "required_features", List(<<>>))
  IN /\ ~JoinRaises(rf)
     /\ \E k \in 1..Len(custom_shop_keywords) :
          IsSubstr(custom_shop_keywords[k], Lower(JoinFeatures(rf)))
\* the record's artist_reference is a text the knowledge base resolves
ArtistResolves(an) ==
  LET artist == Get(an, "artist_reference", PyNone)
  IN artist.t = "str" /\ artist.v # <<>> /\ get_artist_info(artist.v) # <<>>
\* the first n entries of a list
FirstEntries(l, n) == [i \in 1..(IF Len(l) < n THEN Len(l) ELSE n) |-> l[i]]

\* C21: when no custom-shop marker is present and artist_reference resolves in
\* the knowledge base, the filter's brands list is the first three entries of that
\* artist's brand list in table order, and the genre rule is not applied: the
\* brands are not replaced and search_terms is not set.
C21_ArtistRule ==
  \A t \in DOMAIN pc :
    (pc[t] = "step3" /\ ~MarkerPresent(analysis[t]) /\ ArtistResolves(analysis[t])) =>
      /\ "brands" \in DOMAIN search_params[t]
      /\ search_params[t]["brands"]
           = FirstEntries(get_artist_info(analysis[t]["artist_reference"].v)[1].brands, 3)
      /\ "search_terms" \notin DOMAIN search_params[t]

\* C21 witness: step 2 returned a filter for a record without marker that names
\* an artist with four brands and a known genre; the filter holds the artist's
\* first three brands
C21_Witness ==
  \E t \in DOMAIN pc :
    /\ pc[t] = "step3"
    /\ ~MarkerPresent(analysis[t])
    /\ Get(analysis[t], "artist_reference", PyNone) = Str(s_Van_Halen)
    /\ Get(analysis[t], "musical_style", PyNone) = Str(s_metal)
    /\ get_genre_recommendations(s_metal) # <<>>
    /\ search_params[t]["brands"] = <<"EVH", "Fender", "Charvel">>


\* the record's musical_style is a text the knowledge base resolves
GenreResolves(an) ==
  LET style == Get(an, "musical_style", PyNone)
  IN style.t = "str" /\ style.v # <<>> /\ get_genre_recommendations(style.v) # <<>>

\* C22: when neither the custom-shop rule nor the artist rule chose brands (an
\* artist_reference that does not resolve included) and musical_style resolves in
\* the knowledge base, the filter's brands are the genre's first three brands and
\* search_terms are the genre's first two recommended types; when musical_style
\* does not resolve either, the filter has no brands and no search_terms.
C22_GenreRule ==
  \A t \in DOMAIN pc :
    (pc[t] = "step3" /\ ~MarkerPresent(analysis[t]) /\ ~ArtistResolves(analysis[t])) =>
      IF GenreResolves(analysis[t])
      THEN LET genre == get_genre_recommendations(analysis[t]["musical_style"].v)[1]
           IN /\ {"brands", "search_terms"} \subseteq DOMAIN search_params[t]
              /\ search_params[t]["brands"] = FirstEntries(genre.brands, 3)
              /\ search_params[t]["search_terms"]
                   = FirstEntries(genre.recommended_types, 2)
      ELSE {"brands", "search_terms"} \cap DOMAIN search_params[t] = {}

\* C22 witness: step 2 returned a filter for a record without marker whose
\* artist_reference is present and unknown and whose style is metal
C22_Witness ==
  \E t \in DOMAIN pc :
    /\ pc[t] = "step3"
    /\ ~MarkerPresent(analysis[t])
    /\ Get(analysis[t], "artist_reference", PyNone) = Str(s_nobody)
    /\ Get(analysis[t], "musical_style", PyNone) = Str(s_metal)
    /\ search_params[t]["brands"] = <<"Ibanez", "Jackson", "ESP">>
    /\ search_params[t]["search_terms"] = <<"Ibanez RG", "Jackson Soloist">>


(***************************************************************************)
(* The knowledge-base lookups on their own (SpecLookup): each action makes *)
(* one lookup of one input text and keeps what it returned.                *)
(***************************************************************************)
MaxLookupLen == 2
LookupChars == {"x", "e", "z", "S", " "}
ShortTexts == UNION {[1..n -> LookupChars] : n \in 0..MaxLookupLen}
NamedTexts ==
  { <<"V","a","n"," ","H","a","l","e","n">>,
    <<" ","S","L","A","S","H"," ">>,
    <<"h","e","a","v","y"," ","m","e","t","a","l">>,
    <<"m","e","t","a","l"," ","a","n","d"," ","r","o","c","k">>,
    <<"J","a","z","z">>,
    <<"B","e","g","i","n","n","e","r">>,
    <<"p","r","o">>,
    <<"p","o","l","k","a">>,
    <<"n","o","b","o","d","y">>,
    <<"k","i","n","g"," ","o","f"," ","t","h","e"," ","b","l","u","e","s">> }
LookupInputs == ShortTexts \cup NamedTexts

LookupArtist(s) ==
  /\ kb' = [op |-> "artist", input |-> s, result |-> get_artist_info(s)]
  /\ UNCHANGED not_kb
LookupGenre(s) ==
  /\ kb' = [op |-> "genre", input |-> s, result |-> get_genre_recommendations(s)]
  /\ UNCHANGED not_kb
LookupSkill(s) ==
  /\ kb' = [op |-> "skill", input |-> s, result |-> get_skill_level_advice(s)]
  /\ UNCHANGED not_kb

NextLookup ==
  \E s \in LookupInputs :
    \/ LookupArtist(s)
    \/ LookupGenre(s)
    \/ LookupSkill(s)
SpecLookup == Init /\ [][NextLookup]_vars

\* the table a lookup reads
TableOf(op) ==
  IF op = "artist" THEN ARTIST_GUITARS
  ELSE IF op = "genre" THEN GENRE_GUITARS ELSE SKILL_LEVEL_GUITARS
\* the positions of the table keys the input matches: the lower-cased, trimmed
\* input contains the key, or the key contains it
MatchingKeys(op, input) ==
  LET k == Strip(Lower(input))
  IN {i \in 1..Len(TableOf(op)) :
        IsSubstr(TableOf(op)[i].key, k) \/ IsSubstr(k, TableOf(op)[i].key)}
\* the input names an entry: it contains the entry's key, or it is one or more
\* whole words of the key
Names(input, key) ==
  LET k == Strip(Lower(input))
  IN \/ IsSubstr(key, k)
     \/ k # <<>> /\ IsSubstr(<<" ">> \o k \o <<" ">>, <<" ">> \o key \o <<" ">>)

\* C23 (as amended): for every input text, a lookup returns the entry of the first
\* table key, in table order, that the lower-cased, trimmed input contains or that
\* contains it, and returns None exactly when no table key matches in either
\* direction.
C23_FirstMatchingKey ==
  kb.op \in {"artist", "genre", "skill"} =>
    LET hits == MatchingKeys(kb.op, kb.input)
    IN /\ hits = {} <=> kb.result = <<>>
       /\ hits # {} =>
            \E i \in hits : /\ \A j \in hits : i <= j
                            /\ kb.result = <<TableOf(kb.op)[i]>>

\* C23: the lookups return the entry of the first matching table key, return None
\* exactly when no key matches, and an input that names no artist, genre or skill
\* level yields None.
C23_UnnamedYieldsNone ==
  kb.op \in {"artist", "genre", "skill"} =>
    /\ MatchingKeys(kb.op, kb.input) = {} <=> kb.result = <<>>
    /\ (\A i \in 1..Len(TableOf(kb.op)) : ~Names(kb.input, TableOf(kb.op)[i].key))
         => kb.result = <<>>

\* C23 witness: the artist lookup of "Van Halen", which the seventh key contains,
\* returned the seventh entry although "e" alone occurs in the first key
C23_Witness ==
  /\ kb.op = "artist"
  /\ kb.input = <<"V","a","n"," ","H","a","l","e","n">>
  /\ kb.result = <<ARTIST_GUITARS[7]>>
  /\ ARTIST_GUITARS[7].brands = <<"EVH", "Fender", "Charvel", "Kramer">>


\* step 1 of the caller's call is over
Step1Over(t) == Len(context_log[t]) = 1 /\ pc[t] # "step1"

\* C24: during intent analysis the elaboration call is made exactly when no artist
\* and no genre of the knowledge base matched the query; if that call raises, the
\* knowledge context carries no generated content, no exception leaves the
\* knowledge extraction, and the structured-extraction call is still made.
C24_DynamicKnowledgeFallback ==
  \A t \in DOMAIN pc :
    Step1Over(t) =>
      LET unmatched == /\ ArtistMatches(user_query[t]) = <<>>
                       /\ GenreMatches(user_query[t]) = <<>>
          made == context_log[t][1].elaboration
      IN /\ made # <<>> <=> unmatched
         /\ llm_log[t][1] = "dynamic" <=> unmatched
         /\ (made # <<>> /\ made[1].raises) =>
              /\ context_log[t][1].context.dynamic = <<>>
              /\ context_log[t][1].context.parts = <<>>
              /\ SubSeq(llm_log[t], 1, 2) = <<"dynamic", "intent">>
              /\ Len(step_log[t]) = 1 => pc[t] = "step2"

\* C24 witness: the query matches nothing, the elaboration call raised, and step 1
\* went on to the extraction call and returned
C24_Witness ==
  \E t \in DOMAIN pc :
    /\ pc[t] = "step2"
    /\ Step1Over(t)
    /\ ArtistMatches(user_query[t]) = <<>> /\ GenreMatches(user_query[t]) = <<>>
    /\ context_log[t][1].elaboration = <<Raise>>
    /\ context_log[t][1].context.dynamic = <<>>
    /\ llm_log[t] = <<"dynamic", "intent">>


(***************************************************************************)
(* The stripping of code fences from a generated text (SpecFence): a text  *)
(* J is wrapped, and each of the two strippings is applied to the wrapped  *)
(* text.                                                                   *)
(***************************************************************************)
\* the backtick is written "~": a string of the module cannot hold a backtick
BACKTICK == "~"
FENCE == <<BACKTICK, BACKTICK, BACKTICK>>
FENCE_JSON == FENCE \o <<"j", "s", "o", "n">>
\* str.startswith, str.endswith
StartsWith(s, p) == Len(s) >= Len(p) /\ SubSeq(s, 1, Len(p)) = p
EndsWith(s, p) == Len(s) >= Len(p) /\ SubSeq(s, Len(s) - Len(p) + 1, Len(s)) = p

\* a stripping that leaves the opening fence in place
CleanKeepsOpening(response) ==
  LET stripped == Strip(response)
  IN Strip(IF EndsWith(stripped, FENCE)
           THEN SubSeq(stripped, 1, Len(stripped) - 3) ELSE stripped)

\* EnhancedGuitarAgent._clean_json_response
_clean_json_response(response) ==
  LET stripped == Strip(response)
      opened == IF StartsWith(stripped, FENCE_JSON) THEN SubSeq(stripped, 8, Len(stripped))
                ELSE IF StartsWith(stripped, FENCE) THEN SubSeq(stripped, 4, Len(stripped))
                ELSE stripped
      closed == IF EndsWith(opened, FENCE) THEN SubSeq(opened, 1, Len(opened) - 3)
                ELSE opened
  IN Strip(closed)

\* the inline stripping of GuitarSearchAgent.analyze_user_request: the second
\* test is an if, not an elif
legacy_clean(response) ==
  LET stripped == Strip(response)
      opened == IF StartsWith(stripped, FENCE_JSON) THEN SubSeq(stripped, 8, Len(stripped))
                ELSE stripped
      reopened == IF StartsWith(opened, FENCE) THEN SubSeq(opened, 4, Len(opened))
                  ELSE opened
      closed == IF EndsWith(reopened, FENCE) THEN SubSeq(reopened, 1, Len(reopened) - 3)
                ELSE reopened
  IN Strip(closed)

MaxTextLen == 3
TextChars == {BACKTICK, " ", "{"}
FenceTexts ==
  UNION {[1..n -> TextChars] : n \in 0..MaxTextLen}
  \cup { <<"j","s","o","n">>,
         <<"{","a",":"," ","1","}">>,
         <<"j","s","o","n"," ","{","}">> }
Wrappings == {"none", "json", "bare"}
Blanks == {<<>>, <<" ">>, <<"\n">>}
\* the text J as the generator hands it over
Wrapped(J, wrapping, inner, outer) ==
  IF wrapping = "none" THEN outer \o J \o outer
  ELSE outer \o (IF wrapping = "json" THEN FENCE_JSON ELSE FENCE)
             \o inner \o J \o inner \o FENCE \o outer

\* the generator answers, once the answer before has been through both strippings
Respond(J, wrapping, inner, outer) ==
  /\ fence.op = "response" => (fence.cleaned # <<>> /\ fence.legacy # <<>>)
  /\ fence' = [op |-> "response", J |-> J, wrapping |-> wrapping, inner |-> inner,
               response |-> Wrapped(J, wrapping, inner, outer),
               cleaned |-> <<>>, legacy |-> <<>>]
  /\ UNCHANGED not_fence
\* the answer goes through _clean_json_response
CleanResponse ==
  /\ fence.op = "response"
  /\ fence' = [fence EXCEPT !.cleaned = <<_clean_json_response(fence.response)>>]
  /\ UNCHANGED not_fence
\* the answer goes through the inline stripping of the legacy agent
LegacyCleanResponse ==
  /\ fence.op = "response"
  /\ fence' = [fence EXCEPT !.legacy = <<legacy_clean(fence.response)>>]
  /\ UNCHANGED not_fence

NextFence ==
  \/ \E J \in FenceTexts, w \in Wrappings, inner \in Blanks, outer \in Blanks :
       Respond(J, w, inner, outer)
  \/ CleanResponse
  \/ LegacyCleanResponse
SpecFence == Init /\ [][NextFence]_vars

\* the text, trimmed, neither starts nor ends with a fence
Unfenced(J) == ~StartsWith(Strip(J), FENCE) /\ ~EndsWith(Strip(J), FENCE)
\* both strippings were applied and returned this text
BothReturn(text) ==
  /\ fence.cleaned # <<>> => fence.cleaned[1] = text
  /\ fence.legacy # <<>> => fence.legacy[1] = text

\* C25: for every text J that neither starts nor ends with a backtick fence,
\* _clean_json_response applied to J wrapped in a json fence or in a bare fence,
\* with any surrounding whitespace, returns J trimmed, and applied to the
\* unwrapped J returns J trimmed; the legacy agent's inline stripping gives the
\* same result.
C25_FenceStripping ==
  (fence.op = "response" /\ Unfenced(fence.J)) => BothReturn(Strip(fence.J))

\* a bare opening fence is followed at once by a text that starts with "json"
BareFenceThenJson ==
  /\ fence.wrapping = "bare"
  /\ fence.inner = <<>>
  /\ StartsWith(fence.J, <<"j", "s", "o", "n">>)

\* C25 (as amended): the same, except for a text starting with "json" that follows
\* a bare opening fence without whitespace between them.
C25_FenceStrippingButJson ==
  (fence.op = "response" /\ Unfenced(fence.J) /\ ~BareFenceThenJson) =>
    BothReturn(Strip(fence.J))

\* C25 witness: a text with blanks around it, wrapped in a json fence with blanks
\* around the fence, went through both strippings
C25_Witness ==
  /\ fence.op = "response"
  /\ fence.wrapping = "json"
  /\ fence.J = <<" ", "{", " ">>
  /\ Len(fence.response) > Len(fence.J) + Len(FENCE_JSON) + Len(FENCE)
  /\ fence.cleaned = <<<<"{">>>>
  /\ fence.legacy = <<<<"{">>>>


(***************************************************************************)
(* MockGuitarScraper.search on the shared table (SpecMock).  The listings  *)
(* a search returns are the table's own records: what a search writes into *)
(* them is seen by every later search, of any scraper.                     *)
(***************************************************************************)
\* round(n / d) for n >= 0, d > 0: to the nearest integer, a half to the even one
RoundHalfEven(n, d) ==
  LET q == n \div d
      r == n % d
  IN IF 2 * r < d THEN q
     ELSE IF 2 * r > d THEN q + 1
     ELSE IF q % 2 = 0 THEN q ELSE q + 1
\* random.uniform(0.95, 1.05) yields any factor of the interval; the model draws
\* its two ends and 1
Factors == {95, 100, 105}
\* the positions of the table's listings filed under one brand key, in table order
ListingsOf(brand_lower) ==
  SelectSeq([i \in 1..Len(MOCK_GUITARS) |-> i],
            LAMBDA i : MOCK_GUITARS[i].brand = brand_lower)
\* available_guitars: the listings of each brand of the filter in turn (a brand
\* named twice brings its listings twice), or every listing
RECURSIVE AvailableOf(_)
AvailableOf(brands) ==
  IF brands = <<>> THEN <<>>
  ELSE ListingsOf(Lower(Head(brands).v)) \o AvailableOf(Tail(brands))
available_guitars(filter) ==
  IF filter.brands # <<>> THEN AvailableOf(filter.brands)
  ELSE [i \in 1..Len(MOCK_GUITARS) |-> i]
\* brand.lower() raises for a brand that is no text
MockSearchRaises(filter) ==
  \E i \in 1..Len(filter.brands) : filter.brands[i].t # "str"
filtered_guitars(prices, filter) ==
  SelectSeq(available_guitars(filter),
            LAMBDA i : filter.min_price <= prices[i] /\ prices[i] <= filter.max_price)
\* the loop guitar['price'] = round(guitar['price'] * variation) over the filtered
\* listings, from the k-th on, with the factor drawn for each
RECURSIVE Varied(_, _, _, _)
Varied(prices, ids, factor, k) ==
  IF k > Len(ids) THEN prices
  ELSE Varied([prices EXCEPT ![ids[k]] = RoundHalfEven(@ * factor[k], 100)],
              ids, factor, k + 1)
\* random.shuffle and [:max_results]: any arrangement of the filtered listings, cut
Arrangements(n, max_results) ==
  {o \in [1..Min(n, max_results) -> 1..n] :
     \A i, j \in DOMAIN o : i # j => o[i] # o[j]}

MaxSearches == 2
Scrapers == {"enhanced", "legacy"}
MockFilters ==
  { [brands |-> <<Str(<<"F","e","n","d","e","r">>)>>, min_price |-> 850,
     max_price |-> 900, max_results |-> 25],
    [brands |-> <<>>, min_price |-> 895, max_price |-> 930, max_results |-> 1],
    [brands |-> <<Str(<<"e","s","p">>), Str(<<"E","S","P">>)>>, min_price |-> 0,
     max_price |-> 1000, max_results |-> 25],
    [brands |-> <<Str(<<"g","i","b","s","o","n">>)>>, min_price |-> 3000,
     max_price |-> 5000, max_results |-> 25],
    [brands |-> <<Num(5)>>, min_price |-> 0, max_price |-> 10000, max_results |-> 25] }

\* MockGuitarScraper.search
MockSearch(scraper, filter) ==
  /\ mock.searches < MaxSearches
  /\ IF MockSearchRaises(filter)
     THEN mock' = [mock EXCEPT
                     !.searches = @ + 1,
                     !.last = [op |-> "search", by |-> scraper, filter |-> filter,
                               raised |-> TRUE, result |-> <<>>]]
     ELSE LET ids == filtered_guitars(mock.prices, filter)
          IN \E factor \in [1..Len(ids) -> Factors],
                order \in Arrangements(Len(ids), filter.max_results) :
               LET prices == Varied(mock.prices, ids, factor, 1)
               IN mock' = [prices |-> prices,
                           searches |-> mock.searches + 1,
                           last |-> [op |-> "search", by |-> scraper, filter |-> filter,
                                     raised |-> FALSE,
                                     result |-> [j \in DOMAIN order |->
                                                   [id |-> ids[order[j]],
                                                    price |-> prices[ids[order[j]]]]]]]
  /\ UNCHANGED not_mock

NextMock ==
  \E scraper \in Scrapers, filter \in MockFilters : MockSearch(scraper, filter)
SpecMock == Init /\ [][NextMock]_vars

\* a search returned listings
Searched == mock.last.op = "search" /\ ~mock.last.raised

\* C28: after any sequence of searches, on any scraper instances, the price
\* reported for a listing is within 5% of the listing's original catalog price (to
\* the nearest integer): search does not change the prices the shared table holds.
C28_PricesStayNearCatalog ==
  /\ mock.prices = CatalogPrices
  /\ Searched =>
       \A j \in 1..Len(mock.last.result) :
         LET original == MOCK_GUITARS[mock.last.result[j].id].price
             price == mock.last.result[j].price
         IN /\ (original * 95) \div 100 <= price
            /\ price <= (original * 105) \div 100 + 1

\* C29: every listing a search returns has a price between the filter's min_price
\* and max_price, and the list has at most max_results entries.
C29_ResultsWithinFilter ==
  Searched =>
    /\ Len(mock.last.result) <= mock.last.filter.max_results
    /\ \A j \in 1..Len(mock.last.result) :
         /\ mock.last.filter.min_price <= mock.last.result[j].price
         /\ mock.last.result[j].price <= mock.last.filter.max_price


(***************************************************************************)
(* BaseScraper.search_with_cache (SpecCache): a scraper built with caching *)
(* on or off, a clock in minutes, and a search that answers or raises.     *)
(***************************************************************************)
Tuple(x) == [t |-> "tuple", v |-> x]
\* hash() raises for a list, for a dict, and for a tuple that holds one
RECURSIVE Unhashable(_)
Unhashable(x) ==
  \/ x.t \in {"list", "dict"}
  \/ x.t = "tuple" /\ \E i \in 1..Len(x.v) : Unhashable(x.v[i])
\* _get_cache_key: a list at the top of a value is turned into a tuple; two
\* parameter records have one key when these values are equal
KeyRaises(params) ==
  \E k \in DOMAIN params :
    Unhashable(IF params[k].t = "list" THEN Tuple(params[k].v) ELSE params[k])
_get_cache_key(params) ==
  [k \in DOMAIN params |->
     IF params[k].t = "list" THEN Tuple(params[k].v) ELSE params[k]]
\* _get_from_cache: <<>> for None, else the stored data in a one-element sequence;
\* an entry that has expired is deleted
_get_from_cache(c, key) ==
  IF ~c.cache_enabled \/ key \notin DOMAIN c.cache THEN [cache |-> c.cache, data |-> <<>>]
  ELSE IF c.now - c.cache[key].time < c.cache_expiry
  THEN [cache |-> c.cache, data |-> <<c.cache[key].data>>]
  ELSE [cache |-> [k \in DOMAIN c.cache \ {key} |-> c.cache[k]], data |-> <<>>]
\* _save_to_cache
_save_to_cache(c, store, key, data) ==
  IF c.cache_enabled THEN (key :> [time |-> c.now, data |-> data]) @@ store ELSE store

MaxTime == 4
MaxCacheCalls == 3
CACHE_EXPIRY_MINUTES == 2
s_fender == <<"f","e","n","d","e","r">>
CacheParams ==
  { ("max_price" :> Num(900)) @@ ("brands" :> List(<<Str(s_fender)>>)),
    ("max_price" :> Num(900)) @@ ("brands" :> Tuple(<<Str(s_fender)>>)),
    ("max_price" :> Num(2000)),
    ("brands" :> List(<<List(<<Str(s_fender)>>)>>)) }
\* what the subclass's search does when called: it raises, or it returns a list
SearchOutcomes == {SearchRaise, Found(<<>>), Found(<<Listing1>>), Found(<<Listing2>>)}

InitCache ==
  /\ MainWith({"s1"}, {1}, NoStub)
  /\ kb = Idle /\ fence = Idle /\ mock = MockNew /\ legacy = Idle
  /\ \E cache_enabled \in BOOLEAN : cache = CacheNew(cache_enabled, CACHE_EXPIRY_MINUTES)

\* the clock moves on by a minute
Tick ==
  /\ cache.now < MaxTime
  /\ cache' = [cache EXCEPT !.now = @ + 1]
  /\ UNCHANGED not_cache

\* BaseScraper.search_with_cache
search_with_cache(params, outcome) ==
  /\ cache.calls < MaxCacheCalls
  /\ IF KeyRaises(params)
     THEN cache' = [cache EXCEPT
                      !.calls = @ + 1,
                      !.last = [op |-> "search_with_cache", params |-> params,
                                raised |-> TRUE, searched |-> 0, result |-> <<>>]]
     ELSE LET cache_key == _get_cache_key(params)
              got == _get_from_cache(cache, cache_key)
          IN IF got.data # <<>>
             THEN cache' = [cache EXCEPT
                              !.calls = @ + 1,
                              !.cache = got.cache,
                              !.last = [op |-> "search_with_cache",
                                        params |-> params, raised |-> FALSE,
                                        searched |-> 0, result |-> got.data[1]]]
             ELSE IF outcome.raises
             THEN cache' = [cache EXCEPT
                              !.calls = @ + 1,
                              !.cache = got.cache,
                              !.last = [op |-> "search_with_cache",
                                        params |-> params, raised |-> TRUE,
                                        searched |-> 1, result |-> <<>>]]
             ELSE cache' = [cache EXCEPT
                              !.calls = @ + 1,
                              !.cache = _save_to_cache(cache, got.cache, cache_key,
                                                       outcome.listings),
                              !.last = [op |-> "search_with_cache",
                                        params |-> params, raised |-> FALSE,
                                        searched |-> 1, result |-> outcome.listings]]
  /\ UNCHANGED not_cache

NextCache ==
  \/ Tick
  \/ \E params \in CacheParams, outcome \in SearchOutcomes :
       search_with_cache(params, outcome)
SpecCache == InitCache /\ [][NextCache]_vars

\* the parameter record, with a list written as a tuple
Canonical(params) ==
  [k \in DOMAIN params |->
     IF params[k].t = "list" THEN Tuple(params[k].v) ELSE params[k]]
\* what the claim says of one call, from the state before it to the state after
CallContract ==
  LET P == Canonical(cache'.last.params)
      stored == P \in DOMAIN cache.cache
  IN /\ ~cache.cache_enabled =>
          cache'.last.searched = 1 /\ cache'.cache = <<>>
     /\ (cache.cache_enabled /\ stored
           /\ cache.now - cache.cache[P].time < cache.cache_expiry) =>
          /\ cache'.last.searched = 0
          /\ ~cache'.last.raised
          /\ cache'.last.result = cache.cache[P].data
          /\ cache'.cache = cache.cache
     /\ (cache.cache_enabled /\ stored
           /\ cache.now - cache.cache[P].time >= cache.cache_expiry) =>
          /\ cache'.last.searched = 1
          /\ IF cache'.last.raised THEN P \notin DOMAIN cache'.cache
             ELSE cache'.cache[P] = [time |-> cache.now, data |-> cache'.last.result]
          /\ \A k \in DOMAIN cache.cache \ {P} :
               k \in DOMAIN cache'.cache /\ cache'.cache[k] = cache.cache[k]

\* C27: with caching enabled, a search_with_cache(P) issued strictly within the
\* expiry window of the entry stored for P returns the stored result without
\* calling search; the first call issued after the entry has expired removes the
\* entry, calls search exactly once and stores the new result with a new
\* timestamp.  With caching disabled every call invokes search exactly once and
\* the cache stays empty.
C27_CacheWithinExpiry ==
  [][cache'.calls = cache.calls + 1 => CallContract]_vars

\* the same for the calls whose parameters can be hashed
HashableCallsKeepContract ==
  [][(cache'.calls = cache.calls + 1 /\ ~KeyRaises(cache'.last.params))
       => CallContract]_vars

\* the number of entries x of a log
CountOf(log, x) == Cardinality({i \in 1..Len(log) : log[i] = x})

\* C30: one find_guitars_with_explanation call invokes the text-generation client
\* at most three times (at most one dynamic-knowledge elaboration, exactly one
\* intent extraction once step 1 is over, at most one recommendation generation,
\* in this order) and the listing source at most twice, on every path, the
\* fallback paths included; no step is retried in a loop.
C30_CallBudget ==
  \A t \in DOMAIN pc :
    /\ Len(llm_log[t]) <= 3
    /\ CountOf(llm_log[t], "dynamic") <= 1
    /\ CountOf(llm_log[t], "intent") = IF Step1Over(t) THEN 1 ELSE 0
    /\ CountOf(llm_log[t], "recommend") <= 1
    /\ llm_log[t] \in {<<>>, <<"intent">>, <<"dynamic", "intent">>,
                       <<"intent", "recommend">>, <<"dynamic", "intent", "recommend">>}
    /\ Len(search_log[t]) <= 2
    /\ Len(step_log[t]) <= 4
    /\ \A i, j \in 1..Len(step_log[t]) : i < j => step_log[t][i].step < step_log[t][j].step
\* a call that returned after three generation calls and two searches
C30_Witness ==
  \E t \in DOMAIN pc :
    /\ pc[t] = "returned"
    /\ llm_log[t] = <<"dynamic", "intent", "recommend">>
    /\ Len(search_log[t]) = 2

(***************************************************************************)
(* GuitarSearchAgent.find_guitars (SpecLegacy): the legacy agent, its own   *)
(* MockGuitarScraper, and one call of find_guitars taken step by step.      *)
(***************************************************************************)
DEFAULT_MIN_PRICE == 300
DEFAULT_MAX_PRICE == 2000
\* search_params.get('flexibility_factor', 0.2), in hundredths
LEGACY_FLEXIBILITY == 20
\* search_params.get('max_results', 20) of MockGuitarScraper.search
DEFAULT_MAX_RESULTS == 20
s_Fender == <<"F","e","n","d","e","r">>

not_legacy == <<main, kb, fence, cache>>

\* the parameters analyze_user_request returns from its except branch
DefaultSearchParams ==
  [min_price |-> Num(DEFAULT_MIN_PRICE), max_price |-> Num(DEFAULT_MAX_PRICE),
   brands |-> List(<<>>), search_terms |-> List(<<>>), guitar_type |-> Str(s_electric)]

\* analyze_user_request from the answer of the fast model on: defaults for a
\* missing or falsy price, then the flexibility applied to both prices; whatever
\* raises inside the try yields the default parameters
analyze_user_request(r) ==
  IF r.raises \/ ~r.parses \/ r.value.t # "dict" THEN DefaultSearchParams
  ELSE LET d0 == r.value.v
           d1 == IF ~Truthy(Get(d0, "min_price", PyNone))
                 THEN Put(d0, "min_price", Num(DEFAULT_MIN_PRICE)) ELSE d0
           d2 == IF ~Truthy(Get(d1, "max_price", PyNone))
                 THEN Put(d1, "max_price", Num(DEFAULT_MAX_PRICE)) ELSE d1
           flexibility == Get(d2, "flexibility_factor", Num(LEGACY_FLEXIBILITY))
       IN IF \/ flexibility.t # "num"
             \/ d2["min_price"].t # "num"
             \/ d2["max_price"].t # "num"
          THEN DefaultSearchParams
          ELSE Put(Put(d2, "min_price",
                       Num((d2["min_price"].v * (100 - flexibility.v)) \div 100)),
                   "max_price",
                   Num((d2["max_price"].v * (100 + flexibility.v)) \div 100))

\* what MockGuitarScraper.search reads from the parameters
LegacyFilter(params) ==
  LET brands == Get(params, "brands", List(<<>>))
  IN [brands |-> IF Truthy(brands) /\ brands.t = "list" THEN brands.v
                 ELSE IF Truthy(brands) /\ brands.t = "str"
                 THEN [i \in 1..Len(brands.v) |-> Str(<<brands.v[i]>>)]
                 ELSE <<>>,
      min_price |-> Get(params, "min_price", Num(0)).v,
      max_price |-> Get(params, "max_price", Num(10000)).v,
      max_results |-> Get(params, "max_results", Num(DEFAULT_MAX_RESULTS)).v]

\* search_guitars raises when the cache key cannot be computed, when brands is
\* a number, or when a brand is no text
search_guitars_raises(params) ==
  \/ KeyRaises(params)
  \/ LET brands == Get(params, "brands", List(<<>>))
     IN Truthy(brands) /\ brands.t = "num"
  \/ MockSearchRaises(LegacyFilter(params))

\* the draws of one search: a factor for every filtered listing and an
\* arrangement; beyond MaxDrawn listings the model draws one factor for all of
\* them and keeps or reverses the order
MaxDrawn == 2
Draws(n, max_results) ==
  IF n <= MaxDrawn
  THEN {[factor |-> f, order |-> o] :
          f \in [1..n -> Factors], o \in Arrangements(n, max_results)}
  ELSE {[factor |-> [i \in 1..n |-> f],
         order |-> [j \in 1..Min(n, max_results) |-> IF rev THEN n + 1 - j ELSE j]] :
          f \in Factors, rev \in BOOLEAN}

\* the first listing whose title holds the entry's guitar_title, both lowered
LegacyFirstHit(rec, found) ==
  LET title == Get(rec, "guitar_title", PyNone)
      hits == {j \in 1..Len(found) :
                 Truthy(title)
                 /\ IsSubstr(Lower(title.v), Lower(MOCK_GUITARS[found[j].id].title))}
  IN IF hits = {} THEN 0 ELSE CHOOSE j \in hits : \A k \in hits : j <= k
\* the entry after the matching loop
LegacyMatched(rec, found) ==
  LET hit == LegacyFirstHit(rec, found)
  IN IF hit = 0 THEN rec
     ELSE LET guitar == MOCK_GUITARS[found[hit].id]
          IN Put(Put(Put(rec, "image_url", Txt(guitar.image_url)),
                     "link", Txt(guitar.link)),
                 "condition", Txt(guitar.condition))

LegacyNoGuitars ==
  [user_analysis |-> "I understood your request but couldn't find any guitars matching your criteria.",
   recommendations |-> <<>>,
   market_insights |-> Txt("No guitars found. Try adjusting your search criteria.")]
LegacyAnalysisFailed ==
  [user_analysis |-> "I understood your request but encountered an error analyzing the results.",
   recommendations |-> <<>>,
   market_insights |-> Txt("Analysis failed. Please try again.")]

\* recommend_guitars for a list of listings that is not empty, from the answer
\* of the model: the matching loop and the construction of the result are inside
\* the try
recommend_guitars(r, found) ==
  IF r.raises \/ ~r.parses \/ r.value.t # "dict" THEN LegacyAnalysisFailed
  ELSE IF EnhanceRaises(r.value.v) \/ ValidationRaises(r.value.v)
  THEN LegacyAnalysisFailed
  ELSE LET data == r.value.v
           recs == Get(data, "recommendations", List(<<>>)).v
       IN [user_analysis |-> data["user_analysis"].v,
           recommendations |-> [i \in 1..Len(recs) |-> LegacyMatched(recs[i].v, found)],
           market_insights |-> Get(data, "market_insights", PyNone)]

\* answers of the fast model: the budget 1100..750 becomes 880..900 after the
\* flexibility and 5000..750 holds no listing; brands and special_requirements of several shapes
LegacyIntentRecords ==
  {Present([min_price |-> mn, max_price |-> mx, brands |-> b,
            flexibility_factor |-> fl, special_requirements |-> sr]) :
     mn \in {Absent, Num(1100), Num(5000)}, mx \in {Absent, Num(750)},
     b \in {Absent, PyNone, List(<<Str(s_Fender)>>), List(<<Num(5)>>), Num(5)},
     fl \in {Absent, PyNone},
     sr \in {Absent, Str(s_maple_neck), Dict([pickups |-> Str(s_maple_neck)])}}
LegacyIntentPool ==
  {Raise, Unparseable, Parsed(List(<<>>))}
  \cup {Parsed(Dict(d)) : d \in LegacyIntentRecords}
EntryPlayer ==
  Dict([rank |-> Num(1), price |-> Num(899),
        guitar_title |-> Str(<<"f","e","n","d","e","r"," ","p","l","a","y","e","r">>)])
LegacyRecPool ==
  {Raise, Unparseable, Parsed(RecData(<<>>)), Parsed(RecData(<<EntryPlayer>>)),
   Parsed(RecData(<<EntryFlyingV>>)), Parsed(RecData(<<EntryIllTyped>>))}

\* find_guitars is called
LegacyFind(q) ==
  /\ legacy = Idle
  /\ legacy' = [op |-> "find_guitars", pc |-> "analyze", user_query |-> q,
                search_params |-> <<>>, found |-> <<>>, search_raised |-> FALSE,
                result |-> <<>>]
  /\ UNCHANGED <<not_legacy, mock>>

\* step 1 of find_guitars
LegacyAnalyze(r) ==
  /\ legacy.op = "find_guitars" /\ legacy.pc = "analyze"
  /\ legacy' = [legacy EXCEPT !.pc = "search", !.search_params = analyze_user_request(r)]
  /\ UNCHANGED <<not_legacy, mock>>

\* step 2 of find_guitars: search_guitars, through search_with_cache of a scraper
\* built with caching off, has no handler; what search raises leaves find_guitars
LegacySearch ==
  /\ legacy.op = "find_guitars" /\ legacy.pc = "search"
  /\ IF search_guitars_raises(legacy.search_params)
     THEN /\ legacy' = [legacy EXCEPT !.pc = "raised", !.search_raised = TRUE]
          /\ UNCHANGED mock
     ELSE LET filter == LegacyFilter(legacy.search_params)
              ids == filtered_guitars(mock.prices, filter)
          IN \E draw \in Draws(Len(ids), filter.max_results) :
               LET prices == Varied(mock.prices, ids, draw.factor, 1)
                   result == [j \in DOMAIN draw.order |->
                                [id |-> ids[draw.order[j]],
                                 price |-> prices[ids[draw.order[j]]]]]
               IN /\ mock' = [prices |-> prices, searches |-> mock.searches + 1,
                              last |-> [op |-> "search", by |-> "legacy",
                                        filter |-> filter, raised |-> FALSE,
                                        result |-> result]]
                  /\ legacy' = [legacy EXCEPT !.pc = "recommend", !.found = result]
  /\ UNCHANGED not_legacy

\* step 3 of find_guitars, whose result find_guitars returns: no call of the
\* model when no listing was found
LegacyRecommendNone ==
  /\ legacy.op = "find_guitars" /\ legacy.pc = "recommend"
  /\ legacy.found = <<>>
  /\ legacy' = [legacy EXCEPT !.pc = "returned", !.result = <<LegacyNoGuitars>>]
  /\ UNCHANGED <<not_legacy, mock>>
LegacyRecommend(r) ==
  /\ legacy.op = "find_guitars" /\ legacy.pc = "recommend"
  /\ legacy.found # <<>>
  /\ legacy' = [legacy EXCEPT !.pc = "returned",
                              !.result = <<recommend_guitars(r, legacy.found)>>]
  /\ UNCHANGED <<not_legacy, mock>>

NextLegacy ==
  \/ \E q \in Queries : LegacyFind(q)
  \/ \E r \in LegacyIntentPool : LegacyAnalyze(r)
  \/ LegacySearch
  \/ LegacyRecommendNone
  \/ \E r \in LegacyRecPool : LegacyRecommend(r)
SpecLegacy == Init /\ [][NextLegacy]_vars

\* C26: find_guitars of the legacy agent absorbs retrieval failures: when the
\* scraper's search, or the computation of the cache key in search_with_cache,
\* raises, find_guitars does not raise but returns a GuitarRecommendation with
\* empty recommendations and explanatory text.
C26_LegacyAbsorbsRetrievalFailure ==
  legacy.op = "find_guitars" =>
    /\ legacy.pc # "raised"
    /\ (legacy.search_raised /\ legacy.pc = "returned") =>
         /\ legacy.result[1].recommendations = <<>>
         /\ legacy.result[1].user_analysis # ""

\* the failures the legacy agent does absorb: whatever the two models answer,
\* analyze_user_request and recommend_guitars return
LegacyModelFailuresAbsorbed ==
  (legacy.op = "find_guitars" /\ legacy.pc = "returned") =>
    /\ legacy.result[1].user_analysis # ""
    /\ legacy.found = <<>> => legacy.result[1] = LegacyNoGuitars

====
